------------------------ MODULE ElectionDefinitions ------------------------
(***************************************************************************)
(* Election definitions in the two formats that are read (libs/types):     *)
(* VotingWorks' own, VXF, and ballot definitions in the common data format,*)
(* CDF (election.ts, election_utils.ts, cdf/ballot-definition/convert.ts). *)
(* A VXF election is parsed, converted to CDF, perhaps changed by whoever  *)
(* has the file, and parsed again.                                         *)
(*                                                                         *)
(* An id is the list of its words, which dashes join; Undefined is "undefined". *)
(* Fields that are copied and never looked at are left out.                *)
(***************************************************************************)
EXTENDS Lists

CONSTANTS
    Values,         \* the elections, sound or not, that VXF files hold
    Lower,          \* a word without its capitals
    Numeral,        \* a number as a word
    Undefined

VARIABLES
    election,       \* what the VXF file was parsed to
    cdfFile,        \* the CDF file
    edited,         \* what was done to it: nothing, or changes to its "form" or "contents"
    parsed          \* what the file was parsed to

definitionVars == <<election, cdfFile, edited, parsed>>

DefinitionInit == election = Undefined /\ cdfFile = Undefined /\ edited = "nothing" /\ parsed = Undefined

Failed == [ok |-> FALSE]        \* an error in place of an election

Each(list, Op(_)) == [i \in DOMAIN list |-> Op(list[i])]
Ids(list) == [i \in DOMAIN list |-> list[i].id]

----------------------------------------------------------------------------
(* The types of VXF's fields, in a file and once it is parsed.             *)

Id == Seq(STRING)
Maybe(S) == {Undefined} \cup S

NamedUnits == [id : Id, name : STRING]
MeasureOptions == [id : Id, label : STRING]

PartiesWith(fullNames) == [id : Id, name : STRING, fullName : fullNames]
FiledCandidates == [id : Id, name : STRING, isWriteIn : BOOLEAN, partyIds : Maybe(Seq(Id)), partyId : Maybe(Id)]
ParsedCandidates == [id : Id, name : STRING, isWriteIn : BOOLEAN, partyIds : Maybe(Seq(Id))]

Seats(candidates) ==
    [type : {"candidate"}, id : Id, districtId : Id, seats : Nat, partyId : Maybe(Id),
     allowWriteIns : BOOLEAN, candidates : Seq(candidates)]
Measures ==
    [type : {"yesno"}, id : Id, districtId : Id,
     yesOption : Maybe(MeasureOptions), noOption : Maybe(MeasureOptions)]
BallotStyles == [id : Id, precincts : SUBSET Id, districts : SUBSET Id, partyId : Maybe(Id)]

ElectionsWith(parties, candidates) ==
    [state : Id, county : NamedUnits, parties : Seq(parties), districts : Seq(NamedUnits),
     precincts : Seq(NamedUnits), contests : Seq(Seats(candidates) \cup Measures),
     ballotStyles : Seq(BallotStyles)]

\* A file's fields are of their types (safeParse, before any refinement); words
\* have their small letters and write-ins' numbers their numerals.  The words
\* that the conversion adds are strings, which the provers do not know.
DefinitionsAssumption ==
    /\ Values \subseteq ElectionsWith(PartiesWith(Maybe(STRING)), FiledCandidates)
    /\ Undefined \notin Seq(Id) /\ Undefined \notin MeasureOptions
    /\ {"option", "write", "in", "yes", "no", "Yes", "No"} \subseteq STRING
    /\ \A word \in DOMAIN Lower : Lower[word] \in STRING
    /\ \A n \in DOMAIN Numeral : Numeral[n] \in STRING
    /\ IsInjective(Numeral)
    /\ \A e \in Values :
          /\ \A units \in SUBSET Range(Ids(e.districts) \o Ids(e.precincts) \o <<e.county.id>>) : units # Undefined
          /\ Range(e.state) \subseteq DOMAIN Lower
          /\ \A c \in Range(e.contests) : c.type = "candidate" => 0 .. c.seats - 1 \subseteq DOMAIN Numeral
ASSUME DefinitionsAssumption

----------------------------------------------------------------------------
(* VXF.                                                                    *)

\* Older files leave out a party's full name, and give candidates one party.
WithFullName(party) == IF party.fullName = Undefined THEN [party EXCEPT !.fullName = party.name] ELSE party
WithPartyIds(candidate) ==
    [id |-> candidate.id, name |-> candidate.name, isWriteIn |-> candidate.isWriteIn,
     partyIds |-> IF candidate.partyId = Undefined THEN candidate.partyIds ELSE <<candidate.partyId>>]

preprocessElection(value) ==
    [value EXCEPT
        !.parties = Each(value.parties, WithFullName),
        !.contests = Each(value.contests, LAMBDA contest :
            IF contest.type = "candidate"
            THEN [contest EXCEPT !.candidates = Each(contest.candidates, WithPartyIds)]
            ELSE contest)]

IsWriteInId(id) == Len(id) >= 2 /\ id[1] = "write" /\ id[2] = "in"

CandidateContestSchema(contest) ==
    LET writeIns == Those(contest.candidates, LAMBDA c : c.isWriteIn)
    IN  /\ contest.seats > 0
        /\ IsInjective(Ids(contest.candidates))
        /\ \A c \in Range(contest.candidates) : c.isWriteIn = IsWriteInId(c.id)
        /\ writeIns # <<>> => contest.allowWriteIns /\ Len(writeIns) = contest.seats

\* Ids are the only of their kind, and what refers to them finds them.
ElectionSchema(e) ==
    LET partyIds == Range(Ids(e.parties)) IN
    /\ e.districts # <<>> /\ e.precincts # <<>> /\ e.ballotStyles # <<>>
    /\ \A list \in {e.parties, e.districts, e.precincts, e.contests, e.ballotStyles} :
          IsInjective(Ids(list))
    /\ \A s \in Range(e.ballotStyles) :
          /\ s.districts \subseteq Range(Ids(e.districts))
          /\ s.precincts \subseteq Range(Ids(e.precincts))
    /\ \A c \in Range(e.contests) : c.type = "candidate" =>
          /\ CandidateContestSchema(c)
          /\ c.partyId # Undefined => c.partyId \in partyIds
          /\ \A candidate \in Range(c.candidates) :
                candidate.partyIds # Undefined => Range(candidate.partyIds) \subseteq partyIds

safeParseVxfElection(value) ==
    LET e == preprocessElection(value) IN IF ElectionSchema(e) THEN e ELSE Failed

----------------------------------------------------------------------------
(* From VXF to CDF.                                                        *)

Text(content) == <<[Language |-> "en", Content |-> content]>>

OptionId(contest, words) == contest.id \o <<"option">> \o words

WriteInOption(contest, i) ==
    [id |-> OptionId(contest, <<"write", "in", Numeral[i - 1]>>), CandidateIds |-> Undefined,
     EndorsementPartyIds |-> Undefined, IsWriteIn |-> TRUE]
\* A slip to detect: one too few.
WriteInsButOne(contest) ==
    IF contest.allowWriteIns THEN [i \in 1 .. contest.seats - 1 |-> WriteInOption(contest, i)] ELSE <<>>

WriteInOptions(contest) ==
    IF contest.allowWriteIns THEN [i \in 1 .. contest.seats |-> WriteInOption(contest, i)] ELSE <<>>

CandidateOptions(contest) ==
    Each(contest.candidates, LAMBDA c :
        [id |-> OptionId(contest, c.id), CandidateIds |-> <<c.id>>,
         EndorsementPartyIds |-> c.partyIds, IsWriteIn |-> FALSE])
    \o WriteInOptions(contest)

\* The option that is listed when the election names none.
MeasureOption(contest, option, word, label) ==
    IF option = Undefined THEN [id |-> OptionId(contest, <<word>>), Selection |-> Text(label)]
    ELSE [id |-> option.id, Selection |-> Text(option.label)]

CdfContest(contest) ==
    IF contest.type = "candidate"
    THEN [type |-> "CandidateContest", id |-> contest.id, ElectionDistrictId |-> contest.districtId,
          VotesAllowed |-> contest.seats, ContestOption |-> CandidateOptions(contest),
          PrimaryPartyIds |-> IF contest.partyId = Undefined THEN Undefined ELSE <<contest.partyId>>]
    ELSE [type |-> "BallotMeasureContest", id |-> contest.id, ElectionDistrictId |-> contest.districtId,
          ContestOption |-> <<MeasureOption(contest, contest.yesOption, "yes", "Yes"),
                              MeasureOption(contest, contest.noOption, "no", "No")>>]

CdfBallotStyle(style) ==
    [GpUnitIds |-> style.precincts, ExternalIdentifier |-> <<style.id>>,
     PartyIds |-> IF style.partyId = Undefined THEN Undefined ELSE <<style.partyId>>]

\* The precincts of a district are those of the ballot styles that have it.
PrecinctsIn(e, district) ==
    UNION {s.precincts : s \in {t \in Range(e.ballotStyles) : district.id \in t.districts}}

StateId(state) == Each(state, LAMBDA word : Lower[word])

GpUnits(e) ==
    LET Unit(id, name, type, composing) ==
            [id |-> id, Name |-> Text(name), Type |-> type, ComposingGpUnitIds |-> composing]
    IN  <<Unit(StateId(e.state), e.state, "state", {e.county.id}),
          Unit(e.county.id, e.county.name, "county", Range(Ids(e.districts)))>>
        \o Each(e.districts, LAMBDA d : Unit(d.id, d.name, "other", PrecinctsIn(e, d)))
        \o Each(e.precincts, LAMBDA p : Unit(p.id, p.name, "precinct", Undefined))

CandidatesOf(contest) == IF contest.type = "candidate" THEN contest.candidates ELSE <<>>

convertVxfElectionToCdfBallotDefinition(e) ==
    [Candidate |-> Concat(e.contests, LAMBDA c :
                       Each(CandidatesOf(c), LAMBDA k : [id |-> k.id, BallotName |-> Text(k.name)])),
     Contest |-> Each(e.contests, CdfContest),
     BallotStyle |-> Each(e.ballotStyles, CdfBallotStyle),
     Party |-> Each(e.parties, LAMBDA p :
                   [id |-> p.id, Name |-> Text(p.fullName), vxBallotLabel |-> Text(p.name)]),
     GpUnit |-> GpUnits(e)]

----------------------------------------------------------------------------
(* From CDF to VXF.                                                        *)

BallotDefinitionSchema(cdf) ==
    /\ cdf.GpUnit # <<>> /\ cdf.Contest # <<>> /\ cdf.BallotStyle # <<>>
    /\ \A c \in Range(cdf.Contest) :
          Len(c.ContestOption) >= IF c.type = "CandidateContest" THEN 1 ELSE 2
    /\ \A s \in Range(cdf.BallotStyle) : s.GpUnitIds # {} /\ s.ExternalIdentifier # <<>>

\* Every id of the definition, once for each place it is defined at.
DefinedIds(cdf) ==
    Ids(cdf.Candidate) \o Ids(cdf.Contest) \o Ids(cdf.Party) \o Ids(cdf.GpUnit)
    \o Concat(cdf.Contest, LAMBDA c : Ids(c.ContestOption))

OfUnitType(cdf, type) == Those(cdf.GpUnit, LAMBDA u : u.Type = type)

\* Districts are the units contests name, precincts those ballot styles name.
Districts(cdf) ==
    Those(cdf.GpUnit, LAMBDA u : \E c \in Range(cdf.Contest) : c.ElectionDistrictId = u.id)
Precincts(cdf) ==
    Those(cdf.GpUnit, LAMBDA u : \E s \in Range(cdf.BallotStyle) : u.id \in s.GpUnitIds)

InEnglish(text) == Those(text, LAMBDA t : t.Language = "en")
HasEnglish(text) == InEnglish(text) # <<>>
englishText(text) == InEnglish(text)[1].Content

CandidateOf(cdf, option) == Those(cdf.Candidate, LAMBDA k : k.id = option.CandidateIds[1])

\* Nothing the conversion asserts or looks for is missing.
Convertible(cdf) ==
    LET units == Range(Districts(cdf)) \cup Range(Precincts(cdf)) IN
    /\ \A type \in {"state", "county"} :
          OfUnitType(cdf, type) # <<>> /\ HasEnglish(OfUnitType(cdf, type)[1].Name)
    /\ \A p \in Range(Precincts(cdf)) : p.Type = "precinct"
    /\ \A u \in units : HasEnglish(u.Name)
    /\ \A p \in Range(cdf.Party) : HasEnglish(p.Name) /\ HasEnglish(p.vxBallotLabel)
    /\ \A c \in Range(cdf.Contest) :
          IF c.type = "CandidateContest"
          THEN /\ c.PrimaryPartyIds # Undefined => Len(c.PrimaryPartyIds) = 1
               /\ \A o \in Range(c.ContestOption) : ~o.IsWriteIn =>
                     /\ o.CandidateIds # Undefined
                     /\ CandidateOf(cdf, o) # <<>> /\ HasEnglish(CandidateOf(cdf, o)[1].BallotName)
          ELSE \A i \in 1 .. 2 : HasEnglish(c.ContestOption[i].Selection)
    /\ \A s \in Range(cdf.BallotStyle) :
          /\ s.GpUnitIds \subseteq Range(Ids(Precincts(cdf)))
          /\ \A d \in Range(Districts(cdf)) : d.ComposingGpUnitIds # Undefined
          /\ s.PartyIds # Undefined => Len(s.PartyIds) <= 1
          /\ Len(s.ExternalIdentifier) = 1

First(ids) == IF ids = Undefined \/ ids = <<>> THEN Undefined ELSE ids[1]

VxfContest(cdf, c) ==
    IF c.type = "CandidateContest"
    THEN [type |-> "candidate", id |-> c.id, districtId |-> c.ElectionDistrictId,
          seats |-> c.VotesAllowed, partyId |-> First(c.PrimaryPartyIds),
          allowWriteIns |-> \E o \in Range(c.ContestOption) : o.IsWriteIn,
          candidates |->
            Each(Those(c.ContestOption, LAMBDA o : ~o.IsWriteIn), LAMBDA o :
                LET k == CandidateOf(cdf, o)[1]
                IN  [id |-> k.id, name |-> englishText(k.BallotName),
                     isWriteIn |-> FALSE, partyIds |-> o.EndorsementPartyIds])]
    ELSE LET Option(o) == [id |-> o.id, label |-> englishText(o.Selection)]
         IN  [type |-> "yesno", id |-> c.id, districtId |-> c.ElectionDistrictId,
              yesOption |-> Option(c.ContestOption[1]), noOption |-> Option(c.ContestOption[2])]

VxfBallotStyle(cdf, s) ==
    [id |-> s.ExternalIdentifier[1], precincts |-> s.GpUnitIds, partyId |-> First(s.PartyIds),
     districts |-> {d.id : d \in {d \in Range(Districts(cdf)) : d.ComposingGpUnitIds \cap s.GpUnitIds # {}}}]

convertCdfBallotDefinitionToVxfElection(cdf) ==
    LET Named(unit) == [id |-> unit.id, name |-> englishText(unit.Name)]
        state == OfUnitType(cdf, "state")[1]  county == OfUnitType(cdf, "county")[1]
    IN  [state |-> englishText(state.Name), county |-> Named(county),
         parties |-> Each(cdf.Party, LAMBDA p :
            [id |-> p.id, name |-> englishText(p.vxBallotLabel), fullName |-> englishText(p.Name)]),
         contests |-> Each(cdf.Contest, LAMBDA c : VxfContest(cdf, c)),
         districts |-> Each(Districts(cdf), Named),
         precincts |-> Each(Precincts(cdf), Named),
         ballotStyles |-> Each(cdf.BallotStyle, LAMBDA s : VxfBallotStyle(cdf, s))]

safeParseCdfBallotDefinition(cdf) ==
    IF BallotDefinitionSchema(cdf) /\ IsInjective(DefinedIds(cdf)) /\ Convertible(cdf)
    THEN convertCdfBallotDefinitionToVxfElection(cdf) ELSE Failed

----------------------------------------------------------------------------
(* Steps.                                                                  *)

ParseVxf ==
    /\ election = Undefined
    /\ \E value \in Values : election' = safeParseVxfElection(value)
    /\ UNCHANGED <<cdfFile, edited, parsed>>

ConvertToCdf ==
    /\ election \notin {Undefined, Failed} /\ cdfFile = Undefined
    /\ cdfFile' = convertVxfElectionToCdfBallotDefinition(election)
    /\ UNCHANGED <<election, edited, parsed>>

\* Units that are gone or renamed, are not made of others any more, or lose their
\* English names.
UnitEdits(cdf) ==
    LET units == DOMAIN cdf.GpUnit IN
       {[cdf EXCEPT !.GpUnit = RemoveAt(@, i)] : i \in units}
    \cup {[cdf EXCEPT !.GpUnit[i].id = id] : i \in units, id \in Range(Ids(cdf.GpUnit))}
    \cup {[cdf EXCEPT !.GpUnit[i].ComposingGpUnitIds = Undefined] : i \in units}
    \cup {[cdf EXCEPT !.GpUnit[i].Name[1].Language = "es"] : i \in units}

\* Ballot styles with one more unit, or with an id too many.
StyleEdits(cdf) ==
    LET styles == DOMAIN cdf.BallotStyle IN
       {[cdf EXCEPT !.BallotStyle[i].GpUnitIds = @ \cup {id}] : i \in styles, id \in Range(Ids(cdf.GpUnit))}
    \cup {[cdf EXCEPT !.BallotStyle[i].ExternalIdentifier = @ \o @] : i \in styles}

\* Contests of another unit, or with the id of another contest.
ContestEdits(cdf) ==
    LET contests == DOMAIN cdf.Contest IN
       {[cdf EXCEPT !.Contest[i].ElectionDistrictId = id] : i \in contests, id \in Range(Ids(cdf.GpUnit))}
    \cup {[cdf EXCEPT !.Contest[i].id = c.id] : i \in contests, c \in Range(cdf.Contest)}

\* Units in another order, and translations next to the English names.
Rewritings(cdf) ==
    LET translated(text) == <<[Language |-> "es", Content |-> text[1].Content]>> \o text
    IN  {[cdf EXCEPT !.GpUnit = Reverse(@)],
         [cdf EXCEPT !.GpUnit = Each(@, LAMBDA u : [u EXCEPT !.Name = translated(@)])]}

EditFile ==
    /\ cdfFile # Undefined /\ edited = "nothing" /\ parsed = Undefined
    /\ \/ edited' = "form" /\ cdfFile' \in Rewritings(cdfFile)
       \/ edited' = "contents" /\ cdfFile' \in UnitEdits(cdfFile) \cup StyleEdits(cdfFile) \cup ContestEdits(cdfFile)
    /\ UNCHANGED <<election, parsed>>

ParseCdf ==
    /\ cdfFile # Undefined /\ parsed = Undefined
    /\ parsed' = safeParseCdfBallotDefinition(cdfFile)
    /\ UNCHANGED <<election, cdfFile, edited>>

DefinitionNext == ParseVxf \/ ConvertToCdf \/ EditFile \/ ParseCdf

----------------------------------------------------------------------------
(* What the conversion promises.                                           *)

NamedOptions(c) ==
    LET Named(option) == IF option = Undefined THEN <<>> ELSE <<option.id>>
    IN  IF c.type = "yesno" THEN Named(c.yesOption) \o Named(c.noOption) ELSE <<>>

\* What CDF can say: ids are the only ones in the whole election and not just
\* of their kind, none is like those the conversion makes for options, styles
\* have precincts and contests choices, no contest has a precinct for its
\* district, and nobody is listed for a write-in.
Expressible(e) ==
    LET ids == Ids(e.parties) \o Ids(e.districts) \o Ids(e.precincts) \o Ids(e.contests)
               \o Concat(e.contests, LAMBDA c : Ids(CandidatesOf(c)))
               \o Concat(e.contests, NamedOptions)
               \o <<e.county.id, StateId(e.state)>>
    IN
    /\ IsInjective(ids) /\ \A id \in Range(ids) : "option" \notin Range(id)
    /\ e.contests # <<>>
    /\ \A c \in Range(e.contests) : c.districtId \notin Range(Ids(e.precincts))
    /\ \A s \in Range(e.ballotStyles) : s.precincts # {}
    /\ \A c \in Range(e.contests) : c.type = "candidate" =>
          /\ c.candidates # <<>> \/ c.allowWriteIns
          /\ \A k \in Range(c.candidates) : ~k.isWriteIn

\* A contest as voters see it, with the choices the election did not name.
Shown(c) ==
    IF c.type = "candidate" THEN c
    ELSE LET Option(o, word, label) ==
                IF o = Undefined THEN [id |-> c.id \o <<"option", word>>, label |-> label] ELSE o
         IN  [c EXCEPT !.yesOption = Option(@, "yes", "Yes"), !.noOption = Option(@, "no", "No")]

Ballot(e, districts) ==
    LET contests == Those(e.contests, LAMBDA c : c.districtId \in districts)
    IN  Each(contests, Shown)

\* The districts of every style a precinct of this one has, which are its own
\* unless precincts are split.
DistrictsOfPrecincts(e, style) ==
    UNION {s.districts : s \in {t \in Range(e.ballotStyles) : t.precincts \cap style.precincts # {}}}

SameBallots(e, f) ==
    \A i \in DOMAIN e.ballotStyles :
        LET s == e.ballotStyles[i]  t == f.ballotStyles[i]
        IN  /\ t.id = s.id /\ t.precincts = s.precincts /\ t.partyId = s.partyId
            /\ Ballot(f, t.districts) = Ballot(e, DistrictsOfPrecincts(e, s))

\* An election that CDF can express comes back with the same ballots for every
\* style, whatever the order and the languages of the file's units; and of a
\* file that was changed, only what has unambiguous ids and no style without
\* its precincts is accepted (convert.ts: both conversions and the search for
\* duplicate ids).
BallotsSurviveCdf ==
    parsed # Undefined =>
        /\ edited # "contents" /\ Expressible(election) =>
              parsed # Failed /\ SameBallots(election, parsed)
        /\ parsed # Failed =>
              /\ IsInjective(Ids(parsed.precincts) \o Ids(parsed.contests) \o Ids(parsed.parties))
              /\ \A s \in Range(parsed.ballotStyles) : s.precincts \subseteq Range(Ids(parsed.precincts))
=============================================================================
