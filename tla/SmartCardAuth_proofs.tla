------------------------ MODULE SmartCardAuth_proofs -------------------------
(***************************************************************************)
(* What the driver and its cards keep true under every command, whoever    *)
(* sends it: the shapes of the state, and, when nobody pulls a card while  *)
(* it is read, how the slot, the reader's events, the readings and the     *)
(* cached card status hang together.  Both ways of authenticating build on *)
(* it.                                                                     *)
(***************************************************************************)
EXTENDS SmartCardAuth, TLAPS

ReadPcs == {"idle", "select", "vx", "admin", "ca", "vxkey", "pin", "key", "tries", "bad", "done"}

CallPcs == {"idle", "select", "cert", "verify", "key", "match", "bad", "reset", "pin",
            "generate", "storeCert", "storeCa", "clearCert", "clearCa", "clearData", "answered"}

Readings == [pc : ReadPcs, vx : Cards \cup {NoCard}, cert : Certificates \cup {NoCert},
             ca : Jurisdictions \cup {None}]

CardCalls == [pc : CallPcs, kind : {"none", "checkPin", "program", "unprogram"}, pin : Pins,
              cert : [user : CardUsers \cup {None}, hasPin : BOOLEAN, key : Keys \cup {0}],
              answer : {None, "correct", "incorrect", "error", "done"}, tries : Nat]

CardStatuses == [status : NotReadyStates \cup {"ready"}, details : DetailsRecords \cup {None}]

\* A reading that has the certificate of the card.
HasCert(r) == reads[r].pc \in {"ca", "vxkey", "pin", "key", "tries", "done"}

CardTypeOK ==
    /\ inserted \in Cards \cup {NoCard}
    /\ chip \in [Cards -> Chips]
    /\ events \in Seq({"present", "absent"})
    /\ reader \in {"no_card_reader", "no_card", "card_error", "unknown_error", "ready"}
    /\ connected \in BOOLEAN
    /\ cardStatus \in CardStatuses
    /\ reads \in [Reads -> Readings]
    /\ call \in [Calls -> CardCalls]
    /\ issued \in [Keys -> Issues \cup {None}]
    /\ connected => inserted # NoCard
    /\ \A r \in Reads : HasCert(r) => reads[r].cert # NoCert
    /\ \A c \in Calls : call[c].kind = "program" => call[c].cert.user \in CardUsers

\* When nobody pulls a card that is read, the reader never has two things to
\* report, at most one reading is under way, of the card in the slot, and the
\* status says "ready" only of a card that is there or whose leaving is known.
ReaderAtRest ==
    /\ events \in {<<>>, <<"present">>, <<"absent">>}
    /\ events = <<"present">> => inserted # NoCard /\ ~connected
    /\ events = <<"absent">> => inserted = NoCard
    /\ Reading => events = <<>> /\ inserted # NoCard /\ cardStatus.status # "ready"
    /\ \A q, r \in Reads : reads[q].pc # "idle" /\ reads[r].pc # "idle" => q = r
    /\ (inserted = NoCard /\ events = <<>>) \/ events = <<"present">>
          => reader # "ready" /\ cardStatus.status # "ready"
    /\ reader \in {"no_card", "card_error"} => ~Reading /\ cardStatus.status # "ready"
    /\ reader = "ready" /\ ~Reading => cardStatus.status = "ready"

----------------------------------------------------------------------------
(* Types.                                                                  *)

ReaderStates == {"no_card_reader", "no_card", "card_error", "unknown_error", "ready"}

LEMMA UpdateReaderTypes ==
    ASSUME CardTypeOK, NEW status \in ReaderStates, UpdateReader(status)
    PROVE  /\ reader' \in ReaderStates
           /\ cardStatus' \in CardStatuses
           /\ reads' \in [Reads -> Readings]
           /\ \A r \in Reads : HasCert(r)' => reads'[r].cert # NoCert
<1>1. CASE status = reader
  BY <1>1 DEF UpdateReader, CardTypeOK, ReaderStates, HasCert
<1>2. CASE status # reader /\ status = "ready"
  <2>1. PICK r \in Reads : reads' = [reads EXCEPT ![r] = [IdleRead EXCEPT !.pc = "select"]]
    BY <1>2 DEF UpdateReader
  <2>2. [IdleRead EXCEPT !.pc = "select"] \in Readings
    BY DEF IdleRead, Readings, ReadPcs
  <2> QED
    BY <1>2, <2>1, <2>2 DEF UpdateReader, CardTypeOK, ReaderStates, HasCert, IdleRead
<1>3. CASE status # reader /\ status # "ready"
  <2>1. /\ cardStatus' = NotReady(IF status = "no_card_reader" THEN "no_card" ELSE status)
        /\ UNCHANGED reads /\ reader' = status
    BY <1>3 DEF UpdateReader
  <2>2. cardStatus' \in CardStatuses
    BY <1>3, <2>1 DEF NotReady, CardStatuses, NotReadyStates, ReaderStates
  <2> QED
    BY <2>1, <2>2 DEF CardTypeOK, ReaderStates, HasCert
<1> QED
  BY <1>1, <1>2, <1>3

LEMMA AdvanceTypes ==
    ASSUME CardTypeOK, NEW r \in Reads, NEW read \in Readings, Advance(r, read),
           read.pc \in {"ca", "vxkey", "pin", "key", "tries", "done"} => read.cert # NoCert,
           chip' \in [Cards -> Chips]
    PROVE  CardTypeOK'
  BY DEF Advance, CardTypeOK, HasCert

LEMMA FinishReadTypes ==
    ASSUME CardTypeOK, NEW r \in Reads, NEW details \in DetailsRecords \cup {None},
           FinishRead(r, details)
    PROVE  CardTypeOK'
<1>1. /\ IdleRead \in Readings
      /\ Ready(details) \in CardStatuses
  BY DEF IdleRead, Readings, ReadPcs, Ready, CardStatuses
<1> QED
  BY <1>1 DEF FinishRead, CardTypeOK, HasCert, IdleRead

LEMMA VerifyTypes ==
    ASSUME CardTypeOK, inserted # NoCard, NEW pin \in Pins, Verify(pin)
    PROVE  chip' \in [Cards -> Chips]
<1>1. /\ inserted \in Cards
      /\ There \in Chips
  BY DEF CardTypeOK, There
<1>2. [There EXCEPT !.tries = IF pin = There.pin THEN 0 ELSE There.tries + 1] \in Chips
  BY <1>1 DEF Chips
<1>3. chip' = [chip EXCEPT ![inserted] =
                 [There EXCEPT !.tries = IF pin = There.pin THEN 0 ELSE There.tries + 1]]
  BY <1>1 DEF Verify, There, CardTypeOK
<1> QED
  BY <1>1, <1>2, <1>3 DEF CardTypeOK

LEMMA ReadCardDetailsTypes ==
    ASSUME CardTypeOK, ReadCardDetails
    PROVE  CardTypeOK'
<1>1. PICK r \in Reads :
        \/ ReadSelect(r) \/ ReadVxCert(r) \/ ReadAdminCert(r) \/ ReadCaCert(r)
        \/ ReadVxKey(r) \/ ReadDefaultPin(r) \/ ReadAdminKey(r)
        \/ ReadTries(r) \/ ReadDone(r) \/ ReadFails(r)
  BY DEF ReadCardDetails
<1>2. /\ reads[r] \in Readings
      /\ HasCert(r) => reads[r].cert # NoCert
      /\ chip \in [Cards -> Chips]
  BY DEF CardTypeOK
<1>3. Commandable => inserted # NoCard /\ inserted \in Cards /\ There \in Chips
  BY DEF Commandable, Reachable, CardTypeOK, There
<1>4. CASE ReadSelect(r)
  <2> DEFINE read == [reads[r] EXCEPT !.pc = "vx"]
  <2>1. /\ read \in Readings
        /\ read.pc \in {"ca", "vxkey", "pin", "key", "tries", "done"} => read.cert # NoCert
    BY <1>2, <1>3, <1>4 DEF ReadSelect, Readings, ReadPcs
  <2>2. Advance(r, read) /\ chip' \in [Cards -> Chips]
    BY <1>2, <1>4 DEF ReadSelect
  <2> HIDE DEF read
  <2> QED
    BY <2>1, <2>2, AdvanceTypes
<1>5. CASE ReadVxCert(r)
  <2> DEFINE read == [reads[r] EXCEPT !.pc = "admin", !.vx = inserted]
  <2>1. /\ read \in Readings
        /\ read.pc \in {"ca", "vxkey", "pin", "key", "tries", "done"} => read.cert # NoCert
    BY <1>2, <1>3, <1>5 DEF ReadVxCert, Readings, ReadPcs, CardTypeOK
  <2>2. Advance(r, read) /\ chip' \in [Cards -> Chips]
    BY <1>2, <1>5 DEF ReadVxCert
  <2> HIDE DEF read
  <2> QED
    BY <2>1, <2>2, AdvanceTypes
<1>6. CASE ReadAdminCert(r)
  <2> DEFINE read == [reads[r] EXCEPT !.pc = "ca", !.cert = There.cert]
  <2>1. /\ read \in Readings
        /\ read.pc \in {"ca", "vxkey", "pin", "key", "tries", "done"} => read.cert # NoCert
    BY <1>2, <1>3, <1>6 DEF ReadAdminCert, Readings, ReadPcs, Chips
  <2>2. Advance(r, read) /\ chip' \in [Cards -> Chips]
    BY <1>2, <1>6 DEF ReadAdminCert
  <2> HIDE DEF read
  <2> QED
    BY <2>1, <2>2, AdvanceTypes
<1>7. CASE ReadCaCert(r)
  <2> DEFINE read == [reads[r] EXCEPT !.pc = "vxkey", !.ca = There.ca]
  <2>1. /\ read \in Readings
        /\ read.pc \in {"ca", "vxkey", "pin", "key", "tries", "done"} => read.cert # NoCert
    BY <1>2, <1>3, <1>7 DEF ReadCaCert, Readings, ReadPcs, Chips, HasCert
  <2>2. Advance(r, read) /\ chip' \in [Cards -> Chips]
    BY <1>2, <1>7 DEF ReadCaCert
  <2> HIDE DEF read
  <2> QED
    BY <2>1, <2>2, AdvanceTypes
<1>8. CASE ReadVxKey(r)
  <2> DEFINE read == [reads[r] EXCEPT !.pc = IF HasNoPin(reads[r].cert) THEN "pin" ELSE "tries"]
  <2>1. /\ read \in Readings
        /\ read.pc \in {"ca", "vxkey", "pin", "key", "tries", "done"} => read.cert # NoCert
    BY <1>2, <1>3, <1>8 DEF ReadVxKey, Readings, ReadPcs, HasCert
  <2>2. Advance(r, read) /\ chip' \in [Cards -> Chips]
    BY <1>2, <1>8 DEF ReadVxKey
  <2> HIDE DEF read
  <2> QED
    BY <2>1, <2>2, AdvanceTypes
<1>9. CASE ReadDefaultPin(r)
  <2>1. DEFAULT_PIN \in Pins
    BY CardAssumption
  <2>2. chip' \in [Cards -> Chips]
    BY <1>3, <1>9, <2>1, VerifyTypes DEF ReadDefaultPin
  <2> DEFINE read == [reads[r] EXCEPT !.pc = IF There.pin = DEFAULT_PIN THEN "key" ELSE "bad"]
  <2>3. /\ read \in Readings
        /\ read.pc \in {"ca", "vxkey", "pin", "key", "tries", "done"} => read.cert # NoCert
    BY <1>2, <1>9 DEF ReadDefaultPin, Readings, ReadPcs, HasCert
  <2>4. Advance(r, read)
    BY <1>9 DEF ReadDefaultPin
  <2> HIDE DEF read
  <2> QED
    BY <2>2, <2>3, <2>4, AdvanceTypes
<1>10. CASE ReadAdminKey(r)
  <2> DEFINE read == [reads[r] EXCEPT !.pc = IF There.key = reads[r].cert.key THEN "done" ELSE "bad"]
  <2>1. /\ read \in Readings
        /\ read.pc \in {"ca", "vxkey", "pin", "key", "tries", "done"} => read.cert # NoCert
    BY <1>2, <1>3, <1>10 DEF ReadAdminKey, Readings, ReadPcs, HasCert
  <2>2. Advance(r, read) /\ chip' \in [Cards -> Chips]
    BY <1>2, <1>10 DEF ReadAdminKey
  <2> HIDE DEF read
  <2> QED
    BY <2>1, <2>2, AdvanceTypes
<1>11. CASE ReadTries(r)
  <2>1. /\ reads[r].cert \in Certificates
        /\ There \in Chips
    BY <1>2, <1>3, <1>11 DEF ReadTries, HasCert, Readings
  <2>2. Details(reads[r].cert.user, reads[r].cert.hasPin, There.tries) \in DetailsRecords
    BY <2>1 DEF Details, DetailsRecords, Certificates, Chips
  <2> QED
    BY <1>11, <2>2, FinishReadTypes DEF ReadTries
<1>12. CASE ReadDone(r)
  <2>1. reads[r].cert \in Certificates
    BY <1>2, <1>12 DEF ReadDone, HasCert, Readings
  <2>2. Details(reads[r].cert.user, reads[r].cert.hasPin, 0) \in DetailsRecords
    BY <2>1 DEF Details, DetailsRecords, Certificates
  <2> QED
    BY <1>12, <2>2, FinishReadTypes DEF ReadDone
<1>13. CASE ReadFails(r)
  BY <1>13, FinishReadTypes DEF ReadFails
<1> QED
  BY <1>1, <1>4, <1>5, <1>6, <1>7, <1>8, <1>9, <1>10, <1>11, <1>12, <1>13

LEMMA SurroundingsTypes ==
    ASSUME CardTypeOK, Surroundings
    PROVE  CardTypeOK'
<1>1. ASSUME NEW k \in Cards, Insert(k) PROVE CardTypeOK'
  <2>1. events' \in Seq({"present", "absent"})
    BY <1>1 DEF Insert, CardTypeOK
  <2>2. inserted' = k /\ k # NoCard
    BY <1>1, CardAssumption DEF Insert
  <2> QED
    BY <1>1, <2>1, <2>2 DEF Insert, CardTypeOK, HasCert
<1>2. CASE Remove
  <2>1. events' \in Seq({"present", "absent"})
    BY <1>2 DEF Remove, CardTypeOK
  <2> QED
    BY <1>2, <2>1 DEF Remove, CardTypeOK, HasCert
<1>3. CASE CardPresent
  <2>1. events' \in Seq({"present", "absent"})
    BY <1>3 DEF CardPresent, Report, CardTypeOK
  <2>2. \E status \in ReaderStates : UpdateReader(status)
    BY <1>3 DEF CardPresent, ReaderStates
  <2>3. connected' \in BOOLEAN /\ (connected' => inserted' # NoCard)
    BY <1>3 DEF CardPresent
  <2> QED
    BY <1>3, <2>1, <2>2, <2>3, UpdateReaderTypes DEF CardPresent, CardTypeOK, ReaderStates
<1>4. CASE CardAbsent
  <2>1. events' \in Seq({"present", "absent"})
    BY <1>4 DEF CardAbsent, Report, CardTypeOK
  <2>2. \E status \in ReaderStates : UpdateReader(status)
    BY <1>4 DEF CardAbsent, ReaderStates
  <2> QED
    BY <1>4, <2>1, <2>2, UpdateReaderTypes DEF CardAbsent, CardTypeOK, ReaderStates
<1>5. CASE ReaderLost
  <2>1. \E status \in ReaderStates : UpdateReader(status)
    BY <1>5 DEF ReaderLost, ReaderStates
  <2> QED
    BY <1>5, <2>1, UpdateReaderTypes DEF ReaderLost, CardTypeOK, ReaderStates
<1> QED
  BY <1>1, <1>2, <1>3, <1>4, <1>5, ReadCardDetailsTypes DEF Surroundings

LEMMA StepTypes ==
    ASSUME CardTypeOK, NEW c \in Calls, NEW to \in CardCalls, Step(c, to),
           to.kind = "program" => to.cert.user \in CardUsers,
           chip' \in [Cards -> Chips], cardStatus' \in CardStatuses,
           issued' \in [Keys -> Issues \cup {None}]
    PROVE  CardTypeOK'
  BY DEF Step, CardTypeOK, HasCert

LEMMA NoteTriesTypes ==
    ASSUME CardTypeOK, NEW tries \in Nat, NoteTries(tries)
    PROVE  cardStatus' \in CardStatuses
<1>1. CASE NoDetails
  BY <1>1 DEF NoteTries, CardTypeOK
<1>2. CASE ~NoDetails
  <2>1. cardStatus \in CardStatuses /\ cardStatus.details \in DetailsRecords
    BY <1>2 DEF NoDetails, CardTypeOK, CardStatuses
  <2>2. [cardStatus.details EXCEPT !.tries = tries] \in DetailsRecords
    BY <2>1 DEF DetailsRecords
  <2>3. cardStatus' = [cardStatus EXCEPT !.details = [cardStatus.details EXCEPT !.tries = tries]]
    BY <1>2, <2>1 DEF NoteTries, CardStatuses
  <2> QED
    BY <2>1, <2>2, <2>3 DEF CardStatuses
<1> QED
  BY <1>1, <1>2

LEMMA CardCallTypes ==
    ASSUME CardTypeOK, NEW c \in Calls, CardCall(c)
    PROVE  CardTypeOK'
<1>1. /\ call[c] \in CardCalls
      /\ call[c].kind = "program" => call[c].cert.user \in CardUsers
      /\ chip \in [Cards -> Chips]
      /\ cardStatus \in CardStatuses
      /\ issued \in [Keys -> Issues \cup {None}]
  BY DEF CardTypeOK
<1>2. Commandable => inserted \in Cards /\ inserted # NoCard /\ There \in Chips
  BY DEF Commandable, Reachable, CardTypeOK, There
<1>3. ASSUME NEW to \in CardCalls, Step(c, to), to.kind = call[c].kind,
             to.kind = "program" => to.cert.user \in CardUsers,
             chip' \in [Cards -> Chips], cardStatus' \in CardStatuses, issued' = issued
      PROVE  CardTypeOK'
  BY <1>1, <1>3, StepTypes
<1>4. CASE CallSelect(c)
  <2> DEFINE to == [call[c] EXCEPT !.pc = IF call[c].kind = "checkPin" THEN "cert" ELSE "reset"]
  <2>1. to \in CardCalls /\ to.kind = call[c].kind /\ to.cert = call[c].cert
    BY <1>1 DEF CardCalls, CallPcs
  <2>2. Step(c, to) /\ UNCHANGED <<chip, cardStatus, issued>>
    BY <1>4 DEF CallSelect
  <2> HIDE DEF to
  <2> QED
    BY <1>1, <1>3, <2>1, <2>2
<1>5. CASE CheckPinCert(c)
  <2> DEFINE to == [call[c] EXCEPT !.pc = "verify", !.cert = There.cert]
  <2>1. to \in CardCalls /\ to.kind = "checkPin"
    BY <1>1, <1>2, <1>5 DEF CardCalls, CallPcs, CheckPinCert, At, Chips, Certificates, NoCert
  <2>2. Step(c, to) /\ UNCHANGED <<chip, cardStatus, issued>> /\ call[c].kind = "checkPin"
    BY <1>5 DEF CheckPinCert, At
  <2> HIDE DEF to
  <2> QED
    BY <1>1, <1>3, <2>1, <2>2
<1>6. CASE CheckPinVerify(c)
  <2>1. chip' \in [Cards -> Chips]
    BY <1>1, <1>2, <1>6, VerifyTypes DEF CheckPinVerify, CardCalls
  <2>2. There.tries + 1 \in Nat
    BY <1>2, <1>6 DEF CheckPinVerify, Chips
  <2>3. cardStatus' \in CardStatuses
    BY <1>1, <1>6, <2>2, NoteTriesTypes DEF CheckPinVerify
  <2> DEFINE to == IF call[c].pin = There.pin THEN [call[c] EXCEPT !.pc = "key"]
                   ELSE [Answer(c, "incorrect") EXCEPT !.tries = There.tries + 1]
  <2>4. to \in CardCalls /\ to.kind = "checkPin"
    BY <1>1, <2>2, <1>6 DEF CardCalls, CallPcs, CheckPinVerify, At, Answer
  <2>5. Step(c, to) /\ UNCHANGED issued /\ call[c].kind = "checkPin"
    BY <1>6 DEF CheckPinVerify, At
  <2> HIDE DEF to
  <2> QED
    BY <1>3, <2>1, <2>3, <2>4, <2>5
<1>7. CASE CheckPinKey(c)
  <2> DEFINE to == [call[c] EXCEPT !.pc = IF There.key = call[c].cert.key THEN "match" ELSE "bad"]
  <2>1. to \in CardCalls /\ to.kind = call[c].kind /\ to.cert = call[c].cert
    BY <1>1 DEF CardCalls, CallPcs
  <2>2. Step(c, to) /\ UNCHANGED <<chip, cardStatus, issued>>
    BY <1>7 DEF CheckPinKey
  <2> HIDE DEF to
  <2> QED
    BY <1>1, <1>3, <2>1, <2>2
<1>8. CASE CheckPinDone(c)
  <2>1. Answer(c, "correct") \in CardCalls /\ Answer(c, "correct").kind = call[c].kind
        /\ call[c].kind = "checkPin"
    BY <1>1, <1>8 DEF CheckPinDone, CardCalls, CallPcs, Answer, At
  <2>2. cardStatus' \in CardStatuses
    BY <1>8, NoteTriesTypes DEF CheckPinDone
  <2> QED
    BY <1>1, <1>3, <1>8, <2>1, <2>2 DEF CheckPinDone
<1>9. CASE CallReset(c)
  <2>1. [There EXCEPT !.pin = call[c].pin, !.tries = 0, !.key = 0] \in Chips
    BY <1>1, <1>2, <1>9 DEF CallReset, Chips, CardCalls
  <2>2. chip' = [chip EXCEPT ![inserted] =
                   [There EXCEPT !.pin = call[c].pin, !.tries = 0, !.key = 0]]
    BY <1>1, <1>2, <1>9 DEF CallReset, There, Chips
  <2>3. chip' \in [Cards -> Chips]
    BY <1>1, <1>2, <1>9, <2>1, <2>2 DEF CallReset
  <2> DEFINE to == [call[c] EXCEPT !.pc = IF call[c].kind = "program" THEN "pin" ELSE "clearCert"]
  <2>4. to \in CardCalls /\ to.kind = call[c].kind /\ to.cert = call[c].cert
    BY <1>1 DEF CardCalls, CallPcs
  <2>5. Step(c, to) /\ UNCHANGED <<cardStatus, issued>>
    BY <1>9 DEF CallReset
  <2> HIDE DEF to
  <2> QED
    BY <1>1, <1>3, <2>3, <2>4, <2>5
<1>10. CASE ProgramPin(c)
  <2>1. chip' \in [Cards -> Chips]
    BY <1>1, <1>2, <1>10, VerifyTypes DEF ProgramPin, CardCalls
  <2> DEFINE to == IF There.pin = call[c].pin THEN [call[c] EXCEPT !.pc = "generate"]
                   ELSE Answer(c, "error")
  <2>2. to \in CardCalls /\ to.kind = call[c].kind /\ to.cert = call[c].cert
    BY <1>1 DEF CardCalls, CallPcs, Answer
  <2>3. Step(c, to) /\ UNCHANGED <<cardStatus, issued>>
    BY <1>10 DEF ProgramPin
  <2> HIDE DEF to
  <2> QED
    BY <1>1, <1>3, <2>1, <2>2, <2>3
<1>11. CASE ProgramGenerate(c)
  <2>1. PICK k \in Keys :
          /\ chip' = [chip EXCEPT ![inserted].key = k]
          /\ issued' = [issued EXCEPT ![k] = [user |-> call[c].cert.user, pin |-> call[c].pin]]
          /\ Step(c, [call[c] EXCEPT !.pc = "storeCert", !.cert.key = k])
    BY <1>11 DEF ProgramGenerate
  <2>2. /\ inserted \in Cards /\ There \in Chips
        /\ call[c].kind = "program"
    BY <1>2, <1>11 DEF ProgramGenerate, Unlocked, At
  <2>3. chip' = [chip EXCEPT ![inserted] = [There EXCEPT !.key = k]]
    BY <1>1, <2>1, <2>2 DEF There
  <2>4. [There EXCEPT !.key = k] \in Chips
    BY <2>1, <2>2 DEF Chips
  <2>5. chip' \in [Cards -> Chips]
    BY <1>1, <2>2, <2>3, <2>4
  <2>6. [user |-> call[c].cert.user, pin |-> call[c].pin] \in Issues
    BY <1>1, <2>2 DEF CardCalls, Issues
  <2>7. issued' \in [Keys -> Issues \cup {None}]
    BY <1>1, <2>1, <2>6
  <2> DEFINE to == [call[c] EXCEPT !.pc = "storeCert", !.cert.key = k]
  <2>8. to \in CardCalls /\ to.kind = call[c].kind /\ to.cert.user = call[c].cert.user
    BY <1>1, <2>1 DEF CardCalls, CallPcs
  <2>9. Step(c, to) /\ UNCHANGED cardStatus
    BY <1>11, <2>1 DEF ProgramGenerate
  <2> HIDE DEF to
  <2> QED
    BY <1>1, <2>2, <2>5, <2>7, <2>8, <2>9, StepTypes
<1>12. CASE ProgramCert(c)
  <2>1. /\ inserted \in Cards /\ There \in Chips /\ inserted # NoCard
        /\ call[c].kind = "program"
    BY <1>2, <1>12 DEF ProgramCert, At
  <2>2. call[c].cert \in Certificates
    BY <1>1, <2>1 DEF CardCalls, Certificates
  <2>3. [There EXCEPT !.cert = call[c].cert] \in Chips
    BY <2>1, <2>2 DEF Chips
  <2>4. chip' = [chip EXCEPT ![inserted] = [There EXCEPT !.cert = call[c].cert]]
    BY <1>1, <1>12, <2>1 DEF ProgramCert, There
  <2>5. chip' \in [Cards -> Chips]
    BY <1>1, <2>1, <2>3, <2>4
  <2> DEFINE to == [call[c] EXCEPT !.pc = "storeCa"]
  <2>6. to \in CardCalls /\ to.kind = call[c].kind /\ to.cert = call[c].cert
    BY <1>1 DEF CardCalls, CallPcs
  <2>7. Step(c, to) /\ UNCHANGED <<cardStatus, issued>>
    BY <1>12 DEF ProgramCert
  <2> HIDE DEF to
  <2> QED
    BY <1>1, <1>3, <2>5, <2>6, <2>7
<1>13. CASE ProgramCa(c)
  <2>1. /\ inserted \in Cards /\ There \in Chips /\ inserted # NoCard
        /\ call[c].kind = "program" /\ call[c].cert.user \in CardUsers
        /\ call[c].cert.hasPin \in BOOLEAN
    BY <1>1, <1>2, <1>13 DEF ProgramCa, At, CardCalls
  <2>2. call[c].cert.user.jurisdiction \in Jurisdictions \cup {None}
    BY <2>1 DEF CardUsers, SystemAdministrator, ElectionManager, PollWorker, RaveVoter, User
  <2>3. [There EXCEPT !.ca = call[c].cert.user.jurisdiction] \in Chips
    BY <2>1, <2>2 DEF Chips
  <2>4. chip' = [chip EXCEPT ![inserted] = [There EXCEPT !.ca = call[c].cert.user.jurisdiction]]
    BY <1>1, <1>13, <2>1 DEF ProgramCa, There
  <2>5. chip' \in [Cards -> Chips]
    BY <1>1, <2>1, <2>3, <2>4
  <2>6. cardStatus' \in CardStatuses
    <3>1. Details(call[c].cert.user, call[c].cert.hasPin, 0) \in DetailsRecords
      BY <2>1 DEF Details, DetailsRecords
    <3> QED
      BY <1>13, <3>1 DEF ProgramCa, Ready, CardStatuses
  <2>7. Answer(c, "done") \in CardCalls /\ Answer(c, "done").kind = call[c].kind
        /\ Answer(c, "done").cert = call[c].cert
    BY <1>1 DEF CardCalls, CallPcs, Answer
  <2> QED
    BY <1>1, <1>3, <1>13, <2>5, <2>6, <2>7 DEF ProgramCa
<1>14. CASE UnprogramCert(c)
  <2>1. /\ inserted \in Cards /\ There \in Chips
        /\ call[c].kind = "unprogram"
    BY <1>2, <1>14 DEF UnprogramCert, At
  <2>2. [There EXCEPT !.cert = NoCert] \in Chips
    BY <2>1 DEF Chips
  <2>3. chip' = [chip EXCEPT ![inserted] = [There EXCEPT !.cert = NoCert]]
    BY <1>1, <1>14, <2>1 DEF UnprogramCert, There
  <2>4. chip' \in [Cards -> Chips]
    BY <1>1, <2>1, <2>2, <2>3
  <2> DEFINE to == [call[c] EXCEPT !.pc = "clearCa"]
  <2>5. to \in CardCalls /\ to.kind = call[c].kind
    BY <1>1 DEF CardCalls, CallPcs
  <2>6. Step(c, to) /\ UNCHANGED <<cardStatus, issued>>
    BY <1>14 DEF UnprogramCert
  <2> HIDE DEF to
  <2> QED
    BY <1>1, <1>3, <2>1, <2>4, <2>5, <2>6
<1>15. CASE UnprogramCa(c)
  <2>1. /\ inserted \in Cards /\ There \in Chips
        /\ call[c].kind = "unprogram"
    BY <1>2, <1>15 DEF UnprogramCa, At
  <2>2. [There EXCEPT !.ca = None] \in Chips
    BY <2>1 DEF Chips
  <2>3. chip' = [chip EXCEPT ![inserted] = [There EXCEPT !.ca = None]]
    BY <1>1, <1>15, <2>1 DEF UnprogramCa, There
  <2>4. chip' \in [Cards -> Chips]
    BY <1>1, <2>1, <2>2, <2>3
  <2> DEFINE to == [call[c] EXCEPT !.pc = "clearData"]
  <2>5. to \in CardCalls /\ to.kind = call[c].kind
    BY <1>1 DEF CardCalls, CallPcs
  <2>6. Step(c, to) /\ UNCHANGED <<cardStatus, issued>>
    BY <1>15 DEF UnprogramCa
  <2> HIDE DEF to
  <2> QED
    BY <1>1, <1>3, <2>1, <2>4, <2>5, <2>6
<1>16. CASE UnprogramData(c)
  <2>1. cardStatus' \in CardStatuses
    BY <1>16 DEF UnprogramData, Ready, CardStatuses
  <2>2. Answer(c, "done") \in CardCalls /\ Answer(c, "done").kind = call[c].kind
        /\ Answer(c, "done").cert = call[c].cert
    BY <1>1 DEF CardCalls, CallPcs, Answer
  <2> QED
    BY <1>1, <1>3, <1>16, <2>1, <2>2 DEF UnprogramData
<1>17. CASE CallFails(c)
  <2>1. Answer(c, "error") \in CardCalls /\ Answer(c, "error").kind = call[c].kind
        /\ Answer(c, "error").cert = call[c].cert
    BY <1>1 DEF CardCalls, CallPcs, Answer
  <2> QED
    BY <1>1, <1>3, <1>17, <2>1 DEF CallFails
<1> QED
  BY <1>4, <1>5, <1>6, <1>7, <1>8, <1>9, <1>10, <1>11, <1>12, <1>13, <1>14, <1>15, <1>16, <1>17
     DEF CardCall

Started(kind, pin, cert) ==
    [IdleCall EXCEPT !.pc = "select", !.kind = kind, !.pin = pin, !.cert = cert]

LEMMA StartedCall ==
    ASSUME NEW kind \in {"checkPin", "program", "unprogram"},
           NEW pin \in Pins, NEW cert \in Certificates \cup {NoCert}
    PROVE  /\ Started(kind, pin, cert) \in CardCalls
           /\ Started(kind, pin, cert).pc = "select"
           /\ Started(kind, pin, cert).kind = kind
           /\ Started(kind, pin, cert).pin = pin
           /\ Started(kind, pin, cert).cert = cert
           /\ Started(kind, pin, cert).answer = None
<1>1. cert \in [user : CardUsers \cup {None}, hasPin : BOOLEAN, key : Keys \cup {0}]
  <2>1. CASE cert \in Certificates
    BY <2>1 DEF Certificates
  <2>2. CASE cert = NoCert
    BY <2>2 DEF NoCert
  <2> QED
    BY <2>1, <2>2
<1> QED
  BY <1>1 DEF Started, CardCalls, CallPcs, IdleCall

LEMMA StartTypes ==
    ASSUME CardTypeOK, NEW c \in Calls, NEW kind \in {"checkPin", "program", "unprogram"},
           NEW pin \in Pins, NEW cert \in Certificates \cup {NoCert},
           kind = "program" => cert.user \in CardUsers, Start(c, kind, pin, cert)
    PROVE  CardTypeOK'
<1> DEFINE to == Started(kind, pin, cert)
<1>1. to \in CardCalls /\ to.kind = kind /\ to.cert = cert
  BY StartedCall
<1>2. Step(c, to) /\ UNCHANGED <<chip, cardStatus, issued>>
  BY DEF Start, Started
<1> HIDE DEF to
<1> QED
  BY <1>1, <1>2, StepTypes DEF CardTypeOK

LEMMA TakeTypes ==
    ASSUME CardTypeOK, NEW c \in Calls, Take(c)
    PROVE  CardTypeOK'
<1>1. IdleCall \in CardCalls /\ IdleCall.kind = "none"
  BY CardAssumption DEF CardCalls, CallPcs, IdleCall, NoCert
<1> QED
  BY <1>1, StepTypes DEF Take, CardTypeOK

LEMMA CardInitTypes ==
    ASSUME CardInit
    PROVE  CardTypeOK
<1>1. /\ IdleCall \in CardCalls
      /\ IdleRead \in Readings
      /\ NotReady("no_card") \in CardStatuses
  BY CardAssumption DEF CardCalls, CallPcs, IdleCall, NoCert, IdleRead, Readings, ReadPcs,
       NotReady, CardStatuses, NotReadyStates
<1>2. chip \in [Cards -> Chips] /\ \A k \in Cards : chip[k].cert.key = chip[k].key
  BY FirstChipsAssumption DEF CardInit
<1>3. ASSUME NEW k \in Keys PROVE issued[k] \in Issues \cup {None}
  <2>1. CASE \E c \in Cards : chip[c].key = k
    <3> DEFINE c == CHOOSE c \in Cards : chip[c].key = k
    <3>1. c \in Cards /\ chip[c].key = k
      BY <2>1
    <3>2. issued[k] = [user |-> chip[c].cert.user, pin |-> chip[c].pin]
      BY <2>1 DEF CardInit
    <3>3. chip[c] \in Chips /\ chip[c].cert.key = k
      BY <1>2, <3>1
    <3> HIDE DEF c
    <3>4. k # 0
      BY CardAssumption DEF Keys
    <3>5. chip[c].cert \in Certificates
      BY <3>3, <3>4 DEF Chips, NoCert
    <3> QED
      BY <3>2, <3>3, <3>5 DEF Chips, Certificates, Issues
  <2>2. CASE ~\E c \in Cards : chip[c].key = k
    BY <2>2 DEF CardInit
  <2> QED
    BY <2>1, <2>2
<1>4. issued \in [Keys -> Issues \cup {None}]
  BY <1>3 DEF CardInit
<1>5. /\ inserted \in Cards \cup {NoCard}
      /\ events \in Seq({"present", "absent"})
      /\ reader \in {"no_card_reader", "no_card", "card_error", "unknown_error", "ready"}
      /\ connected \in BOOLEAN
      /\ ~connected
  <2>1. inserted = NoCard /\ events = <<>> /\ reader = "no_card_reader" /\ connected = FALSE
    BY DEF CardInit
  <2>2. connected \in BOOLEAN /\ ~connected
    BY <2>1
  <2>3. events \in Seq({"present", "absent"})
    BY <2>1
  <2> QED
    BY <2>1, <2>2, <2>3
<1>6. /\ reads \in [Reads -> Readings]
      /\ call \in [Calls -> CardCalls]
      /\ cardStatus \in CardStatuses
  BY <1>1 DEF CardInit
<1>7. \A r \in Reads : ~HasCert(r)
  BY DEF CardInit, HasCert, IdleRead
<1>8. \A c \in Calls : call[c].kind # "program"
  BY DEF CardInit, IdleCall
<1> QED
  BY <1>2, <1>4, <1>5, <1>6, <1>7, <1>8 DEF CardTypeOK

----------------------------------------------------------------------------
(* The reader at rest.                                                     *)

LEMMA RestStays ==
    ASSUME ReaderAtRest, UNCHANGED <<inserted, events, reader, connected>>,
           \A r \in Reads : (reads'[r].pc = "idle") = (reads[r].pc = "idle"),
           \/ cardStatus'.status = cardStatus.status
           \/ ~Reading /\ reader = "ready" /\ connected /\ cardStatus'.status = "ready"
    PROVE  ReaderAtRest'
<1>1. Reading' = Reading
  BY DEF Reading
<1>2. CASE cardStatus'.status = cardStatus.status
  BY <1>1, <1>2 DEF ReaderAtRest
<1>3. CASE ~Reading /\ reader = "ready" /\ connected /\ cardStatus'.status = "ready"
  BY <1>1, <1>3 DEF ReaderAtRest
<1> QED
  BY <1>2, <1>3

LEMMA RestAdvance ==
    ASSUME CardTypeOK, ReaderAtRest, NEW r \in Reads, reads[r].pc # "idle",
           NEW read, read.pc # "idle", Advance(r, read)
    PROVE  ReaderAtRest'
<1>1. \A q \in Reads : (reads'[q].pc = "idle") = (reads[q].pc = "idle")
  BY DEF Advance, CardTypeOK
<1> QED
  BY <1>1, RestStays DEF Advance

LEMMA RestFinish ==
    ASSUME CardTypeOK, ReaderAtRest, NEW r \in Reads, reads[r].pc # "idle",
           NEW details, FinishRead(r, details)
    PROVE  ReaderAtRest'
<1>1. /\ Reading /\ events = <<>> /\ inserted # NoCard
      /\ reader \notin {"no_card", "card_error"}
  BY DEF ReaderAtRest, Reading
<1>2. \A q \in Reads : reads'[q].pc = "idle"
  BY DEF FinishRead, CardTypeOK, ReaderAtRest, IdleRead
<1>3. ~Reading'
  BY <1>2 DEF Reading
<1>4. cardStatus'.status = "ready"
  BY DEF FinishRead, Ready
<1> QED
  BY <1>1, <1>2, <1>3, <1>4 DEF FinishRead, ReaderAtRest

LEMMA RestReading ==
    ASSUME CardTypeOK, ReaderAtRest, ReadCardDetails
    PROVE  ReaderAtRest'
<1>1. PICK r \in Reads :
        \/ ReadSelect(r) \/ ReadVxCert(r) \/ ReadAdminCert(r) \/ ReadCaCert(r)
        \/ ReadVxKey(r) \/ ReadDefaultPin(r) \/ ReadAdminKey(r)
        \/ ReadTries(r) \/ ReadDone(r) \/ ReadFails(r)
  BY DEF ReadCardDetails
<1>2. CASE \/ ReadSelect(r) \/ ReadVxCert(r) \/ ReadAdminCert(r) \/ ReadCaCert(r)
           \/ ReadVxKey(r) \/ ReadDefaultPin(r) \/ ReadAdminKey(r)
  <2>1. /\ reads[r].pc # "idle"
        /\ \E read : read.pc # "idle" /\ Advance(r, read)
    <3>1. reads[r] \in Readings
      BY DEF CardTypeOK
    <3> QED
      BY <1>2, <3>1 DEF ReadSelect, ReadVxCert, ReadAdminCert, ReadCaCert, ReadVxKey,
           ReadDefaultPin, ReadAdminKey, Readings
  <2> QED
    BY <2>1, RestAdvance
<1>3. CASE ReadTries(r) \/ ReadDone(r) \/ ReadFails(r)
  <2>1. reads[r].pc # "idle" /\ \E details : FinishRead(r, details)
    BY <1>3 DEF ReadTries, ReadDone, ReadFails
  <2> QED
    BY <2>1, RestFinish
<1> QED
  BY <1>1, <1>2, <1>3

\* What a report to the driver makes of it while nothing is read.
LEMMA UpdateReaderAtRest ==
    ASSUME CardTypeOK, ReaderAtRest, NEW status \in ReaderStates, UpdateReader(status)
    PROVE  /\ reader' = status
           /\ \/ status = reader /\ UNCHANGED <<cardStatus, reads>>
              \/ /\ status # reader /\ status = "ready" /\ UNCHANGED cardStatus
                 /\ \E r \in Reads : /\ reads[r].pc = "idle" /\ reads'[r].pc # "idle"
                                     /\ \A q \in Reads : q # r => reads'[q] = reads[q]
              \/ /\ status # reader /\ status # "ready" /\ UNCHANGED reads
                 /\ cardStatus'.status # "ready"
<1>1. CASE status = reader
  BY <1>1 DEF UpdateReader
<1>2. CASE status # reader /\ status = "ready"
  BY <1>2 DEF UpdateReader, CardTypeOK, IdleRead
<1>3. CASE status # reader /\ status # "ready"
  BY <1>3 DEF UpdateReader, NotReady, ReaderStates
<1> QED
  BY <1>1, <1>2, <1>3 DEF UpdateReader

LEMMA RestSurroundings ==
    ASSUME CardTypeOK, ReaderAtRest, ~Hurried, Surroundings
    PROVE  ReaderAtRest'
<1>1. ASSUME NEW k \in Cards, Insert(k) PROVE ReaderAtRest'
  <2>1. ~Reading' /\ ~Reading /\ events = <<>> /\ events' = <<"present">> /\ UNCHANGED reads
    <3>1. ~Reading /\ events = <<>> /\ UNCHANGED reads
      BY <1>1 DEF Insert
    <3>2. events' = Append(events, "present")
      BY <1>1 DEF Insert
    <3> QED
      BY <3>1, <3>2 DEF Reading
  <2>2. inserted = NoCard /\ inserted' = k /\ k # NoCard /\ UNCHANGED <<reader, connected, cardStatus>>
    <3>1. inserted = NoCard /\ inserted' = k
      BY <1>1 DEF Insert
    <3>2. UNCHANGED <<reader, connected, cardStatus>>
      BY <1>1 DEF Insert
    <3>3. k # NoCard
      BY CardAssumption
    <3> QED
      BY <3>1, <3>2, <3>3
  <2>3. ~connected /\ reader # "ready" /\ cardStatus.status # "ready"
    BY <2>1, <2>2 DEF ReaderAtRest, CardTypeOK
  <2> QED
    BY <2>1, <2>2, <2>3 DEF ReaderAtRest
<1>2. CASE Remove
  <2>1. ~Reading' /\ ~Reading /\ events = <<>> /\ events' = <<"absent">> /\ UNCHANGED reads
    <3>1. ~Reading /\ events = <<>> /\ UNCHANGED reads
      BY <1>2 DEF Remove
    <3>2. events' = Append(events, "absent")
      BY <1>2 DEF Remove
    <3> QED
      BY <3>1, <3>2 DEF Reading
  <2> QED
    BY <1>2, <2>1 DEF Remove, ReaderAtRest
<1>3. CASE CardPresent
  <2>1. /\ events = <<"present">> /\ events' = <<>> /\ inserted # NoCard /\ ~Reading
        /\ reader # "ready" /\ cardStatus.status # "ready" /\ UNCHANGED inserted
    BY <1>3 DEF CardPresent, Report, ReaderAtRest
  <2>2. \A r \in Reads : reads[r].pc = "idle"
    BY <2>1 DEF Reading
  <2>3. CASE connected' = TRUE /\ UpdateReader("ready")
    <3>1. /\ reader' = "ready" /\ UNCHANGED cardStatus
          /\ \E r \in Reads : reads'[r].pc # "idle" /\ \A q \in Reads : q # r => reads'[q] = reads[q]
      BY <2>1, <2>3, UpdateReaderAtRest DEF ReaderStates
    <3>2. Reading'
      BY <3>1 DEF Reading
    <3> QED
      BY <2>1, <2>2, <3>1, <3>2 DEF ReaderAtRest
  <2>4. CASE connected' = FALSE /\ UpdateReader("card_error")
    <3>1. reader' = "card_error" /\ UNCHANGED reads /\ cardStatus'.status # "ready"
      BY <2>1, <2>4, UpdateReaderAtRest DEF ReaderStates
    <3>2. ~Reading'
      BY <2>1, <3>1 DEF Reading
    <3> QED
      BY <2>1, <2>2, <3>1, <3>2 DEF ReaderAtRest
  <2> QED
    BY <1>3, <2>3, <2>4 DEF CardPresent
<1>4. CASE CardAbsent
  <2>1. /\ events = <<"absent">> /\ events' = <<>> /\ inserted = NoCard /\ ~Reading
        /\ UNCHANGED inserted
    BY <1>4 DEF CardAbsent, Report, ReaderAtRest
  <2>2. UpdateReader("no_card") /\ connected' = FALSE
    BY <1>4 DEF CardAbsent
  <2>3. reader' = "no_card" /\ UNCHANGED reads /\ cardStatus'.status # "ready"
    BY <2>2, UpdateReaderAtRest DEF ReaderStates, ReaderAtRest
  <2>4. ~Reading'
    BY <2>1, <2>3 DEF Reading
  <2> QED
    BY <2>1, <2>3, <2>4 DEF ReaderAtRest, Reading
<1>5. CASE ReaderLost
  <2>1. PICK status \in {"unknown_error", "no_card_reader"} : UpdateReader(status)
    BY <1>5 DEF ReaderLost
  <2>2. /\ reader' = status /\ UNCHANGED reads
        /\ cardStatus'.status # "ready" \/ UNCHANGED cardStatus
    BY <2>1, UpdateReaderAtRest DEF ReaderStates
  <2>3. Reading' = Reading /\ UNCHANGED <<inserted, events>> /\ connected' = FALSE
    BY <1>5, <2>2 DEF Reading, ReaderLost
  <2> QED
    BY <2>1, <2>2, <2>3 DEF ReaderAtRest
<1> QED
  BY <1>1, <1>2, <1>3, <1>4, <1>5, RestReading DEF Surroundings

LEMMA RestCall ==
    ASSUME CardTypeOK, ReaderAtRest, NEW c \in Calls, CardCall(c),
           call[c].kind # "checkPin" => ~Reading
    PROVE  ReaderAtRest'
<1>1. UNCHANGED <<inserted, events, reader, connected, reads>>
  BY DEF CardCall, CallSelect, CheckPinCert, CheckPinVerify, CheckPinKey, CheckPinDone, CallReset,
       ProgramPin, ProgramGenerate, ProgramCert, ProgramCa, UnprogramCert, UnprogramCa,
       UnprogramData, CallFails, Step
<1>2. \A tries : NoteTries(tries) => cardStatus'.status = cardStatus.status
  BY DEF NoteTries, CardTypeOK, CardStatuses
<1>3. CASE ProgramCa(c) \/ UnprogramData(c)
  <2>1. ~Reading /\ reader = "ready" /\ connected /\ cardStatus'.status = "ready"
    BY <1>3 DEF ProgramCa, UnprogramData, At, Commandable, Reachable, Ready
  <2> QED
    BY <1>1, <2>1, RestStays
<1>4. CASE ~(ProgramCa(c) \/ UnprogramData(c))
  <2>1. cardStatus'.status = cardStatus.status
    BY <1>2, <1>4 DEF CardCall, CallSelect, CheckPinCert, CheckPinVerify, CheckPinKey, CheckPinDone,
         CallReset, ProgramPin, ProgramGenerate, ProgramCert, UnprogramCert, UnprogramCa, CallFails
  <2> QED
    BY <1>1, <2>1, RestStays
<1> QED
  BY <1>3, <1>4

LEMMA RestInit ==
    ASSUME CardInit
    PROVE  ReaderAtRest
<1>1. /\ inserted = NoCard /\ events = <<>> /\ reader = "no_card_reader"
      /\ cardStatus.status = "no_card"
      /\ \A r \in Reads : reads[r].pc = "idle"
  BY DEF CardInit, NotReady, IdleRead
<1> QED
  BY <1>1 DEF ReaderAtRest, Reading
=============================================================================
