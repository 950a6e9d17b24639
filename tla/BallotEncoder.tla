---------------------------- MODULE BallotEncoder ----------------------------
(***************************************************************************)
(* The bits on a printed ballot (libs/ballot-encoder).  Bits are a         *)
(* sequence of 0 and 1, most significant first; a reader is a position in  *)
(* them with what was read.  The election hash is a few digits here, and   *)
(* the alphabet of names a short one.                                      *)
(***************************************************************************)
EXTENDS Elections

CONSTANTS
    MAXIMUM_WRITE_IN_LENGTH,
    WriteInChars            \* the characters of WriteInEncoding, in order

\* CustomEncoding.validateChars: no character twice, and at most 256 of them.
\* The longest name's length and the seats, like all that is shifted, have fewer
\* than 31 bits, and what an election lists is counted in a byte (writeUint8).
EncoderAssumption ==
    /\ WriteInChars \in Seq(Range(WriteInChars)) /\ IsInjective(WriteInChars)
    /\ Len(WriteInChars) \in 1 .. 256
    /\ MAXIMUM_WRITE_IN_LENGTH \in 1 .. 2^30 - 1
    /\ \A c \in Range(Election.contests) : c.type # "yesno" => c.seats < 2^30
    /\ Len(Election.precincts) <= 255 /\ Len(Election.ballotStyles) <= 255
    /\ Len(Election.contests) <= 255
    /\ Election.hash \in Seq(0 .. 15)
ASSUME EncoderAssumption

Prelude == <<86, 88, 2>>
BallotTypeMaximumValue == 15

\* BallotType
Standard == 0
Absentee == 1

----------------------------------------------------------------------------
(* Integers and strings.                                                   *)

sizeof(n) == CHOOSE k \in 1 .. 31 : n < 2^k /\ (k = 1 \/ n >= 2^(k - 1))

Uint(n, size) == [i \in 1 .. size |-> (n \div 2^(size - i)) % 2]
UintUpTo(n, max) == Uint(n, sizeof(max))
Bit(b) == IF b THEN <<1>> ELSE <<0>>

CharBits == sizeof(Len(WriteInChars) - 1)

CharCode(char) == IndexOf(WriteInChars, LAMBDA k : k = char) - 1

WriteName(name) ==
    UintUpTo(Len(name), MAXIMUM_WRITE_IN_LENGTH)
    \o Concat(name, LAMBDA char : Uint(CharCode(char), CharBits))

ReadUint(bits, at, size) ==
    FoldLeft(LAMBDA n, bit : 2 * n + bit, 0, SubSeq(bits, at + 1, at + size))

----------------------------------------------------------------------------
(* Writing.                                                                *)

WriteIns(vote) == Those(vote, LAMBDA choice : choice.id[1] = "named")

maximumWriteIns(c, chosen) == IF chosen < c.seats THEN c.seats - chosen ELSE 0

WriteInData(writeIns, max) ==
    UintUpTo(Len(writeIns), max) \o Concat(writeIns, LAMBDA w : WriteName(w.name))

WriteCandidateVote(c, vote) ==
    LET writeIns == WriteIns(vote)
        max == maximumWriteIns(c, Len(vote) - Len(writeIns))
    IN  Concat(c.candidates, LAMBDA candidate :
            Bit(\E i \in DOMAIN vote : vote[i].id = Official(candidate)))
        \o IF c.allowWriteIns /\ max > 0 THEN WriteInData(writeIns, max) ELSE <<>>

\* Every "throw" of the writer.
CanEncode(ballotStyle, votes) ==
    /\ validateVotes(ballotStyle, votes)
    /\ \A c \in Range(getContests(ballotStyle)) :
          LET vote == votes[c.id]
              writeIns == WriteIns(vote)
              max == maximumWriteIns(c, Len(vote) - Len(writeIns))
          IN  IF c.type = "yesno" THEN Len(vote) <= 1
              ELSE c.allowWriteIns /\ max > 0 /\ vote # <<>> =>
                   /\ Len(writeIns) <= max
                   /\ \A i \in DOMAIN writeIns :
                         /\ Len(writeIns[i].name) <= MAXIMUM_WRITE_IN_LENGTH
                         /\ Range(writeIns[i].name) \subseteq Range(WriteInChars)

encodeBallotVotes(contests, votes) ==
    Concat(contests, LAMBDA c : Bit(votes[c.id] # <<>>))
    \o Concat(contests, LAMBDA c :
        IF votes[c.id] = <<>> THEN <<>>
        ELSE IF c.type = "yesno" THEN Bit(votes[c.id][1].id = Official("yes"))
        ELSE WriteCandidateVote(c, votes[c.id]))

PrecinctIndex(precinct) == IndexOf(Election.precincts, LAMBDA p : p = precinct) - 1
StyleIndex(style) == IndexOf(Election.ballotStyles, LAMBDA s : s.id = style) - 1

\* No ballot id is written.
encodeBallotConfig(style, precinct, testMode, ballotType) ==
    Uint(Len(Election.precincts), 8)
    \o Uint(Len(Election.ballotStyles), 8)
    \o Uint(Len(Election.contests), 8)
    \o UintUpTo(PrecinctIndex(precinct), Len(Election.precincts) - 1)
    \o UintUpTo(StyleIndex(style), Len(Election.ballotStyles) - 1)
    \o Bit(testMode)
    \o UintUpTo(ballotType, BallotTypeMaximumValue)
    \o Bit(FALSE)

\* toUint8Array: the last byte is filled with zeros.
Padded(bits) == bits \o [i \in 1 .. ((8 - (Len(bits) % 8)) % 8) |-> 0]

encodeBallot(style, precinct, votes, testMode, ballotType) ==
    Padded(Concat(Prelude, LAMBDA byte : Uint(byte, 8))
           \o Concat(Election.hash, LAMBDA digit : Uint(digit, 4))
           \o encodeBallotConfig(style, precinct, testMode, ballotType)
           \o encodeBallotVotes(getContests(getBallotStyle(style)), votes))

----------------------------------------------------------------------------
(* Reading: r.at is the reader's position, r.vote or r.votes what it read. *)

ReadName(bits, r) ==
    LET length == ReadUint(bits, r.at, sizeof(MAXIMUM_WRITE_IN_LENGTH))
        start == r.at + sizeof(MAXIMUM_WRITE_IN_LENGTH)
        name == [i \in 1 .. length |->
                    WriteInChars[ReadUint(bits, start + (i - 1) * CharBits, CharBits) + 1]]
    IN  [at |-> start + length * CharBits,
         vote |-> Append(r.vote, [id |-> Named(name), name |-> name])]

ReadWriteIns(bits, r, max) ==
    FoldLeft(LAMBDA read, i : ReadName(bits, read), [r EXCEPT !.at = @ + sizeof(max)],
             [i \in 1 .. ReadUint(bits, r.at, sizeof(max)) |-> i])

ReadCandidateVote(bits, c, at) ==
    LET chosen == Those(c.candidates, LAMBDA candidate :
                      bits[at + IndexOf(c.candidates, LAMBDA k : k = candidate)] = 1)
        vote == [i \in DOMAIN chosen |-> [id |-> Official(chosen[i]), name |-> <<>>]]
        r == [at |-> at + Len(c.candidates), vote |-> vote]
        max == maximumWriteIns(c, Len(vote))
    IN  IF c.allowWriteIns /\ max > 0 THEN ReadWriteIns(bits, r, max) ELSE r

ReadContest(bits, r, c) ==
    IF c.type = "yesno"
    THEN LET option == Official(IF bits[r.at + 1] = 1 THEN "yes" ELSE "no") IN
         [at |-> r.at + 1, votes |-> [r.votes EXCEPT ![c.id] = <<[id |-> option, name |-> <<>>]>>]]
    ELSE LET read == ReadCandidateVote(bits, c, r.at) IN
         [at |-> read.at, votes |-> [r.votes EXCEPT ![c.id] = read.vote]]

decodeBallotVotes(contests, bits, at) ==
    LET answered == Those(contests, LAMBDA c :
                        bits[at + IndexOf(contests, LAMBDA k : k = c)] = 1)
    IN  FoldLeft(LAMBDA r, c : ReadContest(bits, r, c),
                 [at |-> at + Len(contests), votes |-> [c \in ContestIds |-> <<>>]], answered)

decodeBallotConfig(bits, at) ==
    LET precinctBits == sizeof(Len(Election.precincts) - 1)
        styleBits == sizeof(Len(Election.ballotStyles) - 1)
        typeBits == sizeof(BallotTypeMaximumValue)
        next == at + 24 + precinctBits + styleBits
    IN  [counts |-> <<ReadUint(bits, at, 8), ReadUint(bits, at + 8, 8), ReadUint(bits, at + 16, 8)>>,
         precinct |-> Election.precincts[ReadUint(bits, at + 24, precinctBits) + 1],
         style |-> Election.ballotStyles[ReadUint(bits, at + 24 + precinctBits, styleBits) + 1].id,
         isTestMode |-> bits[next + 1] = 1,
         ballotType |-> ReadUint(bits, next + 1, typeBits),
         at |-> next + typeBits + 2]

\* readPaddingToEnd: less than a byte of zeros is left.
OnlyPaddingLeft(bits, at) ==
    Len(bits) - at \in 0 .. 7 /\ \A i \in at + 1 .. Len(bits) : bits[i] = 0

\* ok says that no "throw" of the reader was met.
decodeBallot(bits) ==
    LET start == 24 + 4 * Len(Election.hash)
        config == decodeBallotConfig(bits, start)
        read == decodeBallotVotes(getContests(getBallotStyle(config.style)), bits, config.at)
    IN  [ok |-> /\ SubSeq(bits, 1, 24) = Concat(Prelude, LAMBDA byte : Uint(byte, 8))
                /\ config.counts = <<Len(Election.precincts), Len(Election.ballotStyles),
                                     Len(Election.contests)>>
                /\ OnlyPaddingLeft(bits, read.at),
         style |-> config.style, precinct |-> config.precinct, votes |-> read.votes,
         isTestMode |-> config.isTestMode, ballotType |-> config.ballotType]
=============================================================================
