------------------------------ MODULE JavaCard ------------------------------
(***************************************************************************)
(* The driver of the smart card reader and of the Java Cards put into it   *)
(* (libs/auth/src/card_reader.ts, java_card.ts).  A person inserts and     *)
(* removes cards; the reader reports it later; the driver reads a card's   *)
(* details command by command after it became ready, while calls of the    *)
(* API send commands of their own.  One action per command: an await of    *)
(* the source is a point where everything else may happen.                 *)
(***************************************************************************)
EXTENDS CardDetails, Sequences, FiniteSets

CONSTANTS
    Cards,              \* the physical cards
    NoCard,             \* an empty reader
    Calls,              \* concurrent calls of the card API
    Reads,              \* concurrent readings of card details
    Pins, DEFAULT_PIN,
    MAX_TRIES,          \* MAX_NUM_INCORRECT_PIN_ATTEMPTS
    FirstChips,         \* what the cards may hold at the start
    MaxInsertions,      \* bound on insertions
    MaxKeys,            \* bound on key pairs ever generated
    MaxEvents,          \* bound on reader events not yet handled
    Hurried             \* may a card be pulled while its details are read

\* What a call of the card API comes to, and what a key pair is made for.
Answers == {"correct", "incorrect", "error", "done"}
Issues == [user : CardUsers, pin : Pins]

ASSUME CardAssumption ==
    /\ NoCard \notin Cards
    /\ None \notin Answers \cup Issues
    /\ DEFAULT_PIN \in Pins
    /\ MAX_TRIES \in Nat \ {0}
    /\ Hurried \in BOOLEAN
    /\ MaxKeys \in Nat

Keys == 1 .. MaxKeys
NoCert == [user |-> None, hasPin |-> FALSE, key |-> 0]

\* What a VxAdmin certificate says, and what a card holds.
Certificates == [user : CardUsers, hasPin : BOOLEAN, key : Keys \cup {0}]
Chips == [cert : Certificates \cup {NoCert}, ca : Jurisdictions \cup {None},
          key : Keys \cup {0}, pin : Pins, tries : Nat]

\* A card is met first as one whole call of program left it, or blank.
ASSUME FirstChipsAssumption ==
    \A first \in FirstChips :
        /\ first \in [Cards -> Chips]
        /\ \A k \in Cards : first[k].cert.key = first[k].key
        /\ \A k, l \in Cards : first[k].key = first[l].key /\ first[k].key # 0 => k = l

VARIABLES
    inserted,           \* the card in the slot
    chip,               \* what each card holds
    events,             \* reader events not yet handled, oldest first
    reader,             \* CardReader.reader.status
    connected,          \* the reader's connection is to the card in the slot
    session,            \* "none", the applet "selected", or its PIN "verified"
    cardStatus,         \* JavaCard.cardStatus
    reads,              \* the continuations of onReaderStatusChange
    call,               \* the card operation each API call is in
    issued,             \* the user and PIN each key pair was made for
    insertions

slotVars == <<inserted, connected, session, insertions>>
driverVars == <<events, reader, cardStatus, reads>>
cardVars == <<inserted, chip, events, reader, connected, session, cardStatus,
              reads, call, issued, insertions>>

IdleRead == [pc |-> "idle", vx |-> NoCard, cert |-> NoCert, ca |-> None]
IdleCall == [pc |-> "idle", kind |-> "none", pin |-> DEFAULT_PIN, cert |-> NoCert,
             answer |-> None, tries |-> 0]

CardInit ==
    /\ inserted = NoCard
    /\ chip \in FirstChips
    /\ events = <<>>
    /\ reader = "no_card_reader"
    /\ connected = FALSE
    /\ session = "none"
    /\ cardStatus = NotReady("no_card")
    /\ reads = [r \in Reads |-> IdleRead]
    /\ call = [c \in Calls |-> IdleCall]
    \* The cards were programmed before: their keys are already used up.
    /\ issued = [k \in Keys |->
                    IF \E c \in Cards : chip[c].key = k
                    THEN LET c == CHOOSE c \in Cards : chip[c].key = k
                         IN [user |-> chip[c].cert.user, pin |-> chip[c].pin]
                    ELSE None]
    /\ insertions = 0

----------------------------------------------------------------------------
(* The slot and the reader.                                                *)

Reading == \E r \in Reads : reads[r].pc # "idle"
Calling == \E c \in Calls : call[c].pc \notin {"idle", "answered"}

\* A command to a card that is gone fails at once, long before a hand has
\* put another card in: no call outlives its card into the next one.
Insert(c) ==
    /\ inserted = NoCard
    /\ insertions < MaxInsertions
    /\ Len(events) < MaxEvents
    /\ ~Calling
    /\ Hurried \/ (~Reading /\ events = <<>>)
    /\ inserted' = c
    /\ insertions' = insertions + 1
    /\ events' = Append(events, "present")
    /\ UNCHANGED <<chip, reader, connected, session, cardStatus, reads, call, issued>>

Remove ==
    /\ inserted # NoCard
    /\ Len(events) < MaxEvents
    /\ Hurried \/ (~Reading /\ events = <<>>)
    /\ inserted' = NoCard
    /\ connected' = FALSE
    /\ session' = "none"
    /\ events' = Append(events, "absent")
    /\ UNCHANGED <<chip, reader, cardStatus, reads, call, issued, insertions>>

\* The handler of JavaCard hears of a change only; "ready" starts a reading.
UpdateReader(status) ==
    /\ reader' = status
    /\ IF status = reader
       THEN UNCHANGED <<cardStatus, reads>>
       ELSE IF status = "ready"
       THEN /\ \E r \in Reads :
                  /\ reads[r].pc = "idle"
                  /\ reads' = [reads EXCEPT ![r] = [IdleRead EXCEPT !.pc = "select"]]
            /\ UNCHANGED cardStatus
       ELSE /\ cardStatus' = NotReady(IF status = "no_card_reader" THEN "no_card" ELSE status)
            /\ UNCHANGED reads

Report ==
    /\ events # <<>>
    /\ events' = Tail(events)

\* Connecting may fail, and must when the card is gone again.
CardPresent ==
    /\ Report
    /\ Head(events) = "present"
    /\ \/ /\ inserted # NoCard
          /\ connected' = TRUE
          /\ UpdateReader("ready")
       \/ /\ connected' = FALSE
          /\ UpdateReader("card_error")
    /\ UNCHANGED <<inserted, chip, session, call, issued, insertions>>

CardAbsent ==
    /\ Report
    /\ Head(events) = "absent"
    /\ connected' = FALSE
    /\ UpdateReader("no_card")
    /\ UNCHANGED <<inserted, chip, session, call, issued, insertions>>

\* An error or the end of the reader; the next card event brings it back.
ReaderLost ==
    /\ reader # "no_card_reader"
    /\ \E status \in {"unknown_error", "no_card_reader"} : UpdateReader(status)
    /\ connected' = FALSE
    /\ UNCHANGED <<inserted, chip, events, session, call, issued, insertions>>

\* transmitHelper: "Reader not ready" and a lost connection both throw.
Reachable == reader = "ready" /\ connected
Commandable == Reachable /\ session # "none"
\* The key of the VxAdmin certificate answers after a right PIN only.
Unlocked == Commandable /\ session = "verified"
There == chip[inserted]

----------------------------------------------------------------------------
(* Reading the details of a card, onReaderStatusChange("ready").           *)

Advance(r, read) ==
    /\ reads' = [reads EXCEPT ![r] = read]
    /\ UNCHANGED <<inserted, events, reader, connected, cardStatus, call, issued, insertions>>

ReadSelect(r) ==
    /\ reads[r].pc = "select"
    /\ Reachable
    /\ session' = "selected"
    /\ Advance(r, [reads[r] EXCEPT !.pc = "vx"])
    /\ UNCHANGED chip

\* The certificate every configured card has, naming the card's own key.
ReadVxCert(r) ==
    /\ reads[r].pc = "vx"
    /\ Commandable
    /\ Advance(r, [reads[r] EXCEPT !.pc = "admin", !.vx = inserted])
    /\ UNCHANGED <<chip, session>>

\* An object that was cleared is "file not found", an error.
ReadAdminCert(r) ==
    /\ reads[r].pc = "admin"
    /\ Commandable /\ There.cert # NoCert
    /\ Advance(r, [reads[r] EXCEPT !.pc = "ca", !.cert = There.cert])
    /\ UNCHANGED <<chip, session>>

ReadCaCert(r) ==
    /\ reads[r].pc = "ca"
    /\ Commandable /\ There.ca # None
    /\ Advance(r, [reads[r] EXCEPT !.pc = "vxkey", !.ca = There.ca])
    /\ UNCHANGED <<chip, session>>

\* A certificate signed by the authority that the card carries.
Signed(cert, ca) == cert.user.role = "rave_voter" \/ cert.user.jurisdiction = ca

\* Certificates hold together and the card owns the key of its own.
ReadVxKey(r) ==
    /\ reads[r].pc = "vxkey"
    /\ Commandable /\ reads[r].vx = inserted
    /\ Signed(reads[r].cert, reads[r].ca)
    /\ Advance(r, [reads[r] EXCEPT !.pc = IF HasNoPin(reads[r].cert) THEN "pin" ELSE "tries"])
    /\ UNCHANGED <<chip, session>>

\* VERIFY: a right PIN clears the count of wrong ones, which a wrong one raises.
Verify(pin) ==
    /\ chip' = [chip EXCEPT ![inserted].tries = IF pin = There.pin THEN 0 ELSE @ + 1]
    /\ session' = IF pin = There.pin THEN "verified" ELSE "selected"

Blocked == There.tries >= MAX_TRIES

ReadDefaultPin(r) ==
    /\ reads[r].pc = "pin"
    /\ Commandable /\ ~Blocked
    /\ Verify(DEFAULT_PIN)
    /\ Advance(r, [reads[r] EXCEPT !.pc = IF There.pin = DEFAULT_PIN THEN "key" ELSE "bad"])

\* The signature is checked after the answer, while the card may leave.
ReadAdminKey(r) ==
    /\ reads[r].pc = "key"
    /\ Unlocked /\ There.key # 0
    /\ Advance(r, [reads[r] EXCEPT !.pc = IF There.key = reads[r].cert.key THEN "done" ELSE "bad"])
    /\ UNCHANGED <<chip, session>>

FinishRead(r, details) ==
    /\ cardStatus' = Ready(details)
    /\ reads' = [reads EXCEPT ![r] = IdleRead]
    /\ UNCHANGED <<inserted, chip, events, reader, connected, session, call, issued, insertions>>

\* A slip to detect: the count is not read from the card.
ReadNoTries(r) ==
    /\ reads[r].pc = "tries"
    /\ Commandable
    /\ FinishRead(r, Details(reads[r].cert.user, reads[r].cert.hasPin, 0))

ReadTries(r) ==
    /\ reads[r].pc = "tries"
    /\ Commandable
    /\ FinishRead(r, Details(reads[r].cert.user, reads[r].cert.hasPin, There.tries))

ReadDone(r) ==
    /\ reads[r].pc = "done"
    /\ FinishRead(r, Details(reads[r].cert.user, reads[r].cert.hasPin, 0))

\* safeReadCardDetails: whatever goes wrong, the card is ready without details.
ReadFails(r) ==
    /\ \/ reads[r].pc = "select" /\ ~Reachable
       \/ reads[r].pc \notin {"idle", "select", "done", "bad"} /\ ~Commandable
       \/ reads[r].pc = "bad"
       \/ reads[r].pc = "admin" /\ Commandable /\ There.cert = NoCert
       \/ reads[r].pc = "ca" /\ Commandable /\ There.ca = None
       \/ reads[r].pc = "vxkey" /\ Commandable
              /\ ~(reads[r].vx = inserted /\ Signed(reads[r].cert, reads[r].ca))
       \/ reads[r].pc = "pin" /\ Commandable /\ Blocked
       \/ reads[r].pc = "key" /\ Commandable /\ (There.key = 0 \/ ~Unlocked)
    /\ FinishRead(r, None)

ReadCardDetails ==
    \E r \in Reads :
        \/ ReadSelect(r) \/ ReadVxCert(r) \/ ReadAdminCert(r) \/ ReadCaCert(r)
        \/ ReadVxKey(r) \/ ReadDefaultPin(r) \/ ReadAdminKey(r)
        \/ ReadTries(r) \/ ReadDone(r) \/ ReadFails(r)

----------------------------------------------------------------------------
(* The calls of the card API: checkPin, program and unprogram.             *)

NoDetails == cardStatus.status # "ready" \/ cardStatus.details = None

\* A slip to detect: checkPin does not keep the count.
ForgetTries(tries) == UNCHANGED cardStatus

\* checkPin keeps the count of the details that are there, whoever's they are.
NoteTries(tries) ==
    cardStatus' = IF NoDetails THEN cardStatus
                  ELSE [cardStatus EXCEPT !.details.tries = tries]

Step(c, to) ==
    /\ call' = [call EXCEPT ![c] = to]
    /\ UNCHANGED <<inserted, events, reader, connected, reads, insertions>>

\* A call is over when its answer is there; the caller takes it from here.
Answer(c, answer) == [call[c] EXCEPT !.pc = "answered", !.answer = answer]

Start(c, kind, pin, cert) ==
    /\ call[c].pc = "idle"
    /\ Step(c, [IdleCall EXCEPT !.pc = "select", !.kind = kind, !.pin = pin, !.cert = cert])
    /\ UNCHANGED <<chip, session, cardStatus, issued>>

CheckPin(c, pin) == Start(c, "checkPin", pin, NoCert)

\* A slip to detect: a card without a PIN gets one.
ProgramSomePin(c, user, hasPin, pin) ==
    Start(c, "program", pin, [user |-> user, hasPin |-> hasPin, key |-> 0])

Program(c, user, hasPin, pin) ==
    Start(c, "program", IF hasPin THEN pin ELSE DEFAULT_PIN,
          [user |-> user, hasPin |-> hasPin, key |-> 0])

Unprogram(c) == Start(c, "unprogram", DEFAULT_PIN, NoCert)

At(c, kind, pc) == call[c].kind = kind /\ call[c].pc = pc

CallSelect(c) ==
    /\ call[c].pc = "select"
    /\ Reachable
    /\ session' = "selected"
    /\ Step(c, [call[c] EXCEPT !.pc = IF call[c].kind = "checkPin"
                                      THEN "cert" ELSE "reset"])
    /\ UNCHANGED <<chip, cardStatus, issued>>

CheckPinCert(c) ==
    /\ At(c, "checkPin", "cert")
    /\ Commandable /\ There.cert # NoCert
    /\ Step(c, [call[c] EXCEPT !.pc = "verify", !.cert = There.cert])
    /\ UNCHANGED <<chip, session, cardStatus, issued>>

CheckPinVerify(c) ==
    /\ At(c, "checkPin", "verify")
    /\ Commandable /\ ~Blocked
    /\ Verify(call[c].pin)
    /\ IF call[c].pin = There.pin
       THEN /\ Step(c, [call[c] EXCEPT !.pc = "key"])
            /\ UNCHANGED cardStatus
       ELSE /\ Step(c, [Answer(c, "incorrect") EXCEPT !.tries = There.tries + 1])
            /\ NoteTries(There.tries + 1)
    /\ UNCHANGED issued

\* Only a card whose key is the one of its certificate passes.
CheckPinKey(c) ==
    /\ At(c, "checkPin", "key")
    /\ Unlocked /\ There.key # 0
    /\ Step(c, [call[c] EXCEPT !.pc = IF There.key = call[c].cert.key THEN "match" ELSE "bad"])
    /\ UNCHANGED <<chip, session, cardStatus, issued>>

CheckPinDone(c) ==
    /\ At(c, "checkPin", "match")
    /\ Step(c, Answer(c, "correct"))
    /\ NoteTries(0)
    /\ UNCHANGED <<chip, session, issued>>

\* A slip to detect: the applet keeps the key when the PIN is reset.
CallResetKeepsKey(c) ==
    /\ call[c].pc = "reset"
    /\ Commandable
    /\ chip' = [chip EXCEPT ![inserted].pin = call[c].pin, ![inserted].tries = 0]
    /\ Step(c, [call[c] EXCEPT !.pc = IF call[c].kind = "program" THEN "pin" ELSE "clearCert"])
    /\ UNCHANGED <<session, cardStatus, issued>>

\* RESET RETRY COUNTER, which in this applet clears the PIN gated key too.
CallReset(c) ==
    /\ call[c].pc = "reset"
    /\ Commandable
    /\ chip' = [chip EXCEPT ![inserted].pin = call[c].pin, ![inserted].tries = 0,
                            ![inserted].key = 0]
    /\ Step(c, [call[c] EXCEPT !.pc = IF call[c].kind = "program" THEN "pin" ELSE "clearCert"])
    /\ UNCHANGED <<session, cardStatus, issued>>

ProgramPin(c) ==
    /\ At(c, "program", "pin")
    /\ Commandable /\ ~Blocked
    /\ Verify(call[c].pin)
    /\ Step(c, IF There.pin = call[c].pin THEN [call[c] EXCEPT !.pc = "generate"]
               ELSE Answer(c, "error"))
    /\ UNCHANGED <<cardStatus, issued>>

\* The certificate made for the new key is put together in this process.
ProgramGenerate(c) ==
    /\ At(c, "program", "generate")
    /\ Unlocked
    /\ \E k \in Keys :
         /\ issued[k] = None
         /\ \A l \in Keys : l < k => issued[l] # None
         /\ chip' = [chip EXCEPT ![inserted].key = k]
         /\ issued' = [issued EXCEPT ![k] = [user |-> call[c].cert.user, pin |-> call[c].pin]]
         /\ Step(c, [call[c] EXCEPT !.pc = "storeCert", !.cert.key = k])
    /\ UNCHANGED <<session, cardStatus>>

ProgramCert(c) ==
    /\ At(c, "program", "storeCert")
    /\ Commandable
    /\ chip' = [chip EXCEPT ![inserted].cert = call[c].cert]
    /\ Step(c, [call[c] EXCEPT !.pc = "storeCa"])
    /\ UNCHANGED <<session, cardStatus, issued>>

ProgramCa(c) ==
    /\ At(c, "program", "storeCa")
    /\ Commandable
    /\ chip' = [chip EXCEPT ![inserted].ca = call[c].cert.user.jurisdiction]
    /\ cardStatus' = Ready(Details(call[c].cert.user, call[c].cert.hasPin, 0))
    /\ Step(c, Answer(c, "done"))
    /\ UNCHANGED <<session, issued>>

UnprogramCert(c) ==
    /\ At(c, "unprogram", "clearCert")
    /\ Commandable
    /\ chip' = [chip EXCEPT ![inserted].cert = NoCert]
    /\ Step(c, [call[c] EXCEPT !.pc = "clearCa"])
    /\ UNCHANGED <<session, cardStatus, issued>>

UnprogramCa(c) ==
    /\ At(c, "unprogram", "clearCa")
    /\ Commandable
    /\ chip' = [chip EXCEPT ![inserted].ca = None]
    /\ Step(c, [call[c] EXCEPT !.pc = "clearData"])
    /\ UNCHANGED <<session, cardStatus, issued>>

\* The generic storage itself is in CardStorage.
UnprogramData(c) ==
    /\ At(c, "unprogram", "clearData")
    /\ Commandable
    /\ cardStatus' = Ready(None)
    /\ Step(c, Answer(c, "done"))
    /\ UNCHANGED <<chip, session, issued>>

CallFails(c) ==
    /\ \/ call[c].pc = "select" /\ ~Reachable
       \/ call[c].pc \notin {"idle", "select", "match", "bad", "answered"} /\ ~Commandable
       \/ call[c].pc = "bad"
       \/ call[c].pc = "cert" /\ Commandable /\ There.cert = NoCert
       \/ call[c].pc \in {"verify", "pin"} /\ Commandable /\ Blocked
       \/ call[c].pc = "key" /\ Commandable /\ (There.key = 0 \/ ~Unlocked)
       \/ call[c].pc = "generate" /\ Commandable /\ ~Unlocked
    /\ Step(c, Answer(c, "error"))
    /\ UNCHANGED <<chip, session, cardStatus, issued>>

CardCall(c) ==
    \/ CallSelect(c) \/ CheckPinCert(c) \/ CheckPinVerify(c) \/ CheckPinKey(c)
    \/ CheckPinDone(c) \/ CallReset(c) \/ ProgramPin(c) \/ ProgramGenerate(c)
    \/ ProgramCert(c) \/ ProgramCa(c) \/ UnprogramCert(c) \/ UnprogramCa(c)
    \/ UnprogramData(c)
    \/ CallFails(c)

\* The person, the reader and the readings it starts.
Surroundings ==
    \/ \E k \in Cards : Insert(k)
    \/ Remove
    \/ CardPresent \/ CardAbsent \/ ReaderLost
    \/ ReadCardDetails

\* The caller takes the answer.
Take(c) ==
    /\ call[c].pc = "answered"
    /\ Step(c, IdleCall)
    /\ UNCHANGED <<chip, session, cardStatus, issued>>

----------------------------------------------------------------------------
(* Properties.                                                             *)

\* A card that proves to own the key of its certificate was made for that user
\* by one whole call of program: it asks for the PIN that call was given,
\* wherever a card was pulled during program and unprogram.
WholeOrUseless ==
    \A k \in Cards :
        LET cert == chip[k].cert IN
        cert # NoCert /\ chip[k].key = cert.key /\ cert.key # 0
            => issued[cert.key] = [user |-> cert.user, pin |-> chip[k].pin]

\* What readCardDetails makes of a card that is left alone.
Readable(k) ==
    LET h == chip[k] IN
    IF h.cert = NoCert \/ h.ca = None \/ ~Signed(h.cert, h.ca) THEN None
    ELSE IF ~HasNoPin(h.cert) THEN Details(h.cert.user, h.cert.hasPin, h.tries)
    ELSE IF h.pin = DEFAULT_PIN /\ h.tries < MAX_TRIES /\ h.key # 0 /\ h.key = h.cert.key
    THEN Details(h.cert.user, h.cert.hasPin, 0) ELSE None

Settled == events = <<>> /\ ~Reading /\ ~Calling

\* A cached count may be too high, after the right PIN of a card whose key is
\* gone, never too low.  The count of a card without a PIN is never looked at:
\* a wrong PIN that was asked for another card and used up the last try of this
\* one shows when the card is read again.
SameDetails(cached, real) ==
    IF cached = None \/ real = None
    THEN cached = real \/ (cached # None /\ HasNoPin(cached) /\ Blocked)
    ELSE /\ cached.user = real.user /\ cached.hasPin = real.hasPin
         /\ HasNoPin(cached) \/ cached.tries >= real.tries
=============================================================================
