------------------------------ MODULE UsbDrive ------------------------------
(***************************************************************************)
(* libs/ui: useUsbDrive, which polls for a USB drive, mounts it, and ejects *)
(* or formats it for a user, over libs/utils: usbstick.ts.  A poll starts   *)
(* every 100 ms whether or not the last one is over, so polls overlap each  *)
(* other and what the user asked for; each await lets the others run.       *)
(*                                                                         *)
(* The commands of kiosk-browser, outside the repository, take as long as   *)
(* they like, and the drive may be pulled or exchanged meanwhile.  What a   *)
(* poll does besides mounting, a query and a line in the log, and the line  *)
(* in the log before ejecting take less than a person needs to touch the    *)
(* drive or a button (Undisturbed).                                         *)
(***************************************************************************)
EXTENDS Naturals

CONSTANTS
    PollIds,        \* bound: polls at a time
    User,           \* what the user asked for last
    NoUsb,
    MaxPutIns      \* bound

\* What a query says of a drive that is in; a poll is not the user.
UsbDrives == [fat32 : BOOLEAN, mounted : BOOLEAN]
ASSUME UsbAssumption == NoUsb \notin UsbDrives /\ User \notin PollIds /\ MaxPutIns \in Nat

VARIABLES
    usb,            \* the drive that is in
    availability, status, isFormatting,     \* the hook's state
    task,           \* where each poll and the user's call are
    pulledFirst,    \* a drive was pulled before its eject began
    putIns

usbVars == <<usb, availability, status, isFormatting, task, pulledFirst, putIns>>

Tasks == PollIds \cup {User}
NoTask == [pc |-> "over", info |-> NoUsb, after |-> "eject"]

UsbInit ==
    /\ usb \in UsbDrives \cup {NoUsb}
    /\ availability = "absent" /\ status = "absent" /\ isFormatting = FALSE
    /\ task = [t \in Tasks |-> NoTask]
    /\ pulledFirst = FALSE /\ putIns = 0

getAvailability(info) ==
    IF info = NoUsb THEN "absent" ELSE IF info.mounted THEN "mounted" ELSE "present"

PcIs(t, pc) == task[t].pc = pc
PcTo(t, pc) == task' = [task EXCEPT ![t].pc = pc]

\* format's finally is the last thing it does.
Ends(t) ==
    /\ task' = [task EXCEPT ![t] = NoTask]
    /\ isFormatting' = (isFormatting /\ t # User)

\* usbstick.getInfo: the drive may be another when the answer is used.
InfoGiven ==
    [poll |-> "pollInfo", mount |-> "mountInfo", eject |-> "ejectInfo",
     format |-> "formatInfo", doFormat |-> "doFormatInfo"]
GetInfo(t) ==
    /\ task[t].pc \in DOMAIN InfoGiven
    /\ task' = [task EXCEPT ![t].info = usb, ![t].pc = InfoGiven[@]]
    /\ UNCHANGED <<usb, availability, status, isFormatting, pulledFirst, putIns>>

----------------------------------------------------------------------------
(* Polling.                                                                *)

\* A slip to detect: polling goes on while the drive is being ejected.
PollsWhileEjecting(p) ==
    /\ PcIs(p, "over")
    /\ ~isFormatting /\ status # "mounting"
    /\ PcTo(p, "poll")
    /\ UNCHANGED <<usb, availability, status, isFormatting, pulledFirst, putIns>>

StartPoll(p) ==
    /\ PcIs(p, "over")
    /\ ~isFormatting /\ status \notin {"mounting", "ejecting"}
    /\ PcTo(p, "poll")
    /\ UNCHANGED <<usb, availability, status, isFormatting, pulledFirst, putIns>>

ReadPoll(p) ==
    /\ PcIs(p, "pollInfo")
    /\ availability' = getAvailability(task[p].info)
    /\ IF availability' # "absent" /\ availability = "absent"
       THEN PcTo(p, "detected") /\ UNCHANGED isFormatting
       ELSE IF availability' = "absent" /\ availability # "absent"
       THEN PcTo(p, "removed") /\ UNCHANGED isFormatting
       ELSE Ends(p)
    /\ UNCHANGED <<usb, status, pulledFirst, putIns>>

\* The drive is as another poll may have seen it by now.
Detected(p) ==
    /\ PcIs(p, "detected")
    /\ \/ /\ availability = "present" /\ task[p].info.fat32
          /\ PcTo(p, "logMount")
          /\ UNCHANGED <<status, isFormatting>>
       \/ /\ availability = "present" /\ ~task[p].info.fat32
          /\ status' = "bad_format" /\ Ends(p)
       \/ /\ availability # "present"
          /\ status' = "mounted" /\ Ends(p)
    /\ UNCHANGED <<usb, availability, pulledFirst, putIns>>

Removed(p) ==
    /\ PcIs(p, "removed")
    /\ status' = "absent" /\ Ends(p)
    /\ UNCHANGED <<usb, availability, pulledFirst, putIns>>

----------------------------------------------------------------------------
(* Mounting, for a poll or after formatting.                               *)

StartMount(t) ==
    /\ PcIs(t, "logMount")
    /\ status' = "mounting" /\ PcTo(t, "mount")
    /\ UNCHANGED <<usb, availability, isFormatting, pulledFirst, putIns>>

DoMount(t) ==
    /\ PcIs(t, "mountInfo")
    /\ IF getAvailability(task[t].info) # "present" THEN PcTo(t, "isMounted") /\ UNCHANGED usb
       ELSE \/ usb # NoUsb /\ usb' = [usb EXCEPT !.mounted = TRUE] /\ PcTo(t, "isMounted")
            \/ PcTo(t, "mountFailed") /\ UNCHANGED usb
    /\ UNCHANGED <<availability, status, isFormatting, pulledFirst, putIns>>

\* A mount that failed is only logged.
MountEnds(t) ==
    /\ task[t].pc \in {"isMounted", "mountFailed"}
    /\ status' = IF PcIs(t, "isMounted") THEN "mounted" ELSE status
    /\ Ends(t)
    /\ UNCHANGED <<usb, availability, pulledFirst, putIns>>

----------------------------------------------------------------------------
(* Ejecting and formatting.                                                *)

Undisturbed ==
    \A t \in Tasks : task[t].pc \notin {"poll", "pollInfo", "detected", "removed", "logMount", "logEject"}

\* By the time a person reacts, a poll has seen a drive that was formatted.
ClickEject ==
    /\ Undisturbed /\ availability # "absent"
    /\ status = "mounted" /\ PcIs(User, "over")
    /\ PcTo(User, "logEject")
    /\ UNCHANGED <<usb, availability, status, isFormatting, pulledFirst, putIns>>

StartEject ==
    /\ PcIs(User, "logEject")
    /\ status' = "ejecting" /\ PcTo(User, "eject")
    /\ pulledFirst' = (pulledFirst \/ usb = NoUsb)
    /\ UNCHANGED <<usb, availability, isFormatting, putIns>>

DoEject ==
    /\ PcIs(User, "ejectInfo")
    /\ IF getAvailability(task[User].info) # "mounted" THEN PcTo(User, "isEjected") /\ UNCHANGED usb
       ELSE \/ /\ usb' = IF usb = NoUsb THEN NoUsb ELSE [usb EXCEPT !.mounted = FALSE]
               /\ PcTo(User, "isEjected")
            \/ PcTo(User, "ejectFailed") /\ UNCHANGED usb
    /\ UNCHANGED <<availability, status, isFormatting, pulledFirst, putIns>>

\* A second or more after StartEject.
EjectEnds ==
    /\ task[User].pc \in {"isEjected", "ejectFailed"}
    /\ status' = IF PcIs(User, "isEjected") THEN "ejected" ELSE "mounted"
    /\ Ends(User)
    /\ UNCHANGED <<usb, availability, pulledFirst, putIns>>

ClickFormat ==
    /\ Undisturbed /\ status \in {"mounted", "bad_format", "ejected"} /\ PcIs(User, "over")
    /\ isFormatting' = TRUE
    /\ \E action \in {"mount", "eject"} :
         task' = [task EXCEPT ![User] = [NoTask EXCEPT !.pc = "format", !.after = action]]
    /\ UNCHANGED <<usb, availability, status, pulledFirst, putIns>>

\* format asserts that there is a drive; doFormat returns when there is none.
Format ==
    /\ LET info == task[User].info IN
       \/ /\ PcIs(User, "formatInfo")
          /\ IF info = NoUsb THEN Ends(User) ELSE PcTo(User, "doFormat") /\ UNCHANGED isFormatting
          /\ UNCHANGED usb
       \/ /\ PcIs(User, "doFormatInfo") /\ info = NoUsb
          /\ PcTo(User, "formatted") /\ UNCHANGED <<usb, isFormatting>>
       \/ /\ PcIs(User, "doFormatInfo") /\ info # NoUsb
          /\ IF info.mounted THEN PcTo(User, "unmount") ELSE PcTo(User, "reformat")
          /\ UNCHANGED <<usb, isFormatting>>
    /\ UNCHANGED <<availability, status, pulledFirst, putIns>>

\* Each of the two commands may fail, and then format throws.
RunFormat ==
    /\ task[User].pc \in {"unmount", "reformat"}
    /\ \/ Ends(User) /\ UNCHANGED usb
       \/ /\ PcIs(User, "unmount") /\ usb # NoUsb
          /\ usb' = [usb EXCEPT !.mounted = FALSE]
          /\ PcTo(User, "reformat") /\ UNCHANGED isFormatting
       \/ /\ PcIs(User, "reformat") /\ usb # NoUsb /\ ~usb.mounted
          /\ usb' = [usb EXCEPT !.fat32 = TRUE]
          /\ PcTo(User, "formatted") /\ UNCHANGED isFormatting
    /\ UNCHANGED <<availability, status, pulledFirst, putIns>>

Formatted ==
    /\ PcIs(User, "formatted")
    /\ \/ task[User].after = "mount" /\ PcTo(User, "logMount") /\ UNCHANGED <<status, isFormatting>>
       \/ task[User].after = "eject" /\ status' = "ejected" /\ Ends(User)
    /\ UNCHANGED <<usb, availability, pulledFirst, putIns>>

----------------------------------------------------------------------------
(* The drive.                                                              *)

UsbOut ==
    /\ Undisturbed /\ usb # NoUsb
    /\ usb' = NoUsb
    /\ UNCHANGED <<availability, status, isFormatting, task, pulledFirst, putIns>>

UsbIn ==
    /\ Undisturbed /\ usb = NoUsb /\ putIns < MaxPutIns
    /\ usb' \in [fat32 : BOOLEAN, mounted : {FALSE}]
    /\ putIns' = putIns + 1
    /\ UNCHANGED <<availability, status, isFormatting, task, pulledFirst>>

UsbNext ==
    \/ \E t \in Tasks : GetInfo(t) \/ StartMount(t) \/ DoMount(t) \/ MountEnds(t)
    \/ \E p \in PollIds : StartPoll(p) \/ ReadPoll(p) \/ Detected(p) \/ Removed(p)
    \/ ClickEject \/ StartEject \/ DoEject \/ EjectEnds
    \/ ClickFormat \/ Format \/ RunFormat \/ Formatted
    \/ UsbOut \/ UsbIn

----------------------------------------------------------------------------
(* Properties.                                                             *)

\* A drive that is shown as ejected is not mounted, so it can be taken out,
\* whatever polls overlap and whichever drive has come in since the button was
\* pressed.  It ends with a drive that is pulled just before its eject begins:
\* a poll that saw it go takes the status back to absent within the eject's
\* second, and a drive that comes in by then is mounted while that eject, and
\* whatever else is asked for, still runs.
EjectedIsUnmounted ==
    status = "ejected" /\ ~pulledFirst => usb = NoUsb \/ ~usb.mounted
=============================================================================
