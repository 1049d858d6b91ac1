---------------------------- MODULE AlertTracker ----------------------------
(***************************************************************************)
(* The webhook notices of `mtc_stats stream` (Notifier and AlertTracker of *)
(* src/mtconnect_collect/tools/mtc_stats.cpp): a machine went offline, is  *)
(* still offline, came back; the agent cannot be reached, can be reached.  *)
(*                                                                         *)
(* One Round is one turn of cmd_stream's loop, which ends with check().    *)
(* Times are kept as ages (now minus the stored time), up to EverySec,     *)
(* after which they make no difference.  send() gives no second try and    *)
(* its result is not looked at.                                            *)
(***************************************************************************)
EXTENDS Integers

CONSTANTS
    Machines,  \* the devices of the agent
    EverySec,  \* Notifier::everySec: ticks until a notice is repeated
    LossySends \* the webhook may fail to deliver

ASSUME AlertAssumption ==
    EverySec \in Nat \ {0} /\ LossySends \in BOOLEAN

VARIABLES
    running,
    states,           \* of a machine: "on", "off" (UNAVAILABLE), "absent"
    offlineSince,     \* machines in the map of that name
    lastOfflineAlert, \* the map of that name, as ages
    lastReqOk,
    lastReqFailAlert, \* as an age
    told              \* what the last delivered notice said, of each machine
                      \* and of the link (TRUE: fine)

alertVars == <<running, states, offlineSince, lastOfflineAlert, lastReqOk,
               lastReqFailAlert, told>>

Link  == "link"
Ages  == 0..EverySec
Later(age, elapsed) == IF age + elapsed > EverySec THEN EverySec ELSE age + elapsed

\* The notices check() sends: the machine loop, then the link.
GoesOffline(m, st) == st[m] = "off" /\ m \notin offlineSince
StillOffline(m, st, elapsed) ==
    /\ st[m] = "off" /\ m \in offlineSince
    /\ Later(lastOfflineAlert[m], elapsed) >= EverySec
ComesBack(m, st) == st[m] = "on" /\ m \in offlineSince

LinkFails(reqOk, elapsed) ==
    ~reqOk /\ (lastReqOk \/ Later(lastReqFailAlert, elapsed) >= EverySec)
LinkRecovers(reqOk) == reqOk /\ ~lastReqOk

\* Mutant: the map of alerts keeps the machines that came back.
AlertsKept(st) == DOMAIN lastOfflineAlert \cup {m \in Machines : GoesOffline(m, st)}

\* The machines with an entry in lastOfflineAlert after check().
AlertsAfter(st) ==
    (DOMAIN lastOfflineAlert \cup {m \in Machines : GoesOffline(m, st)})
        \ {m \in Machines : ComesBack(m, st)}

\* Mutant: every check of an offline machine stamps lastOfflineAlert.
AgeStamped(m, st, elapsed) == IF st[m] = "off" THEN 0 ELSE Later(lastOfflineAlert[m], elapsed)

AgeAfter(m, st, elapsed) ==
    IF GoesOffline(m, st) \/ StillOffline(m, st, elapsed) THEN 0
    ELSE Later(lastOfflineAlert[m], elapsed)

\* AlertTracker::check on the states of this round.
Check(st, elapsed, reqOk) ==
    LET down == {m \in Machines : GoesOffline(m, st) \/ StillOffline(m, st, elapsed)}
                   \cup (IF LinkFails(reqOk, elapsed) THEN {Link} ELSE {})
        fine == {m \in Machines : ComesBack(m, st)}
                   \cup (IF LinkRecovers(reqOk) THEN {Link} ELSE {})
    IN  /\ offlineSince' = (offlineSince \cup {m \in Machines : GoesOffline(m, st)})
                              \ {m \in Machines : ComesBack(m, st)}
        /\ lastOfflineAlert' = [m \in AlertsAfter(st) |-> AgeAfter(m, st, elapsed)]
        /\ lastReqOk' = reqOk
        /\ lastReqFailAlert' = IF LinkFails(reqOk, elapsed) THEN 0
                               ELSE Later(lastReqFailAlert, elapsed)
        /\ \E sent \in (IF LossySends THEN SUBSET (down \cup fine) ELSE {down \cup fine}) :
              told' = [x \in Machines \cup {Link} |->
                          IF x \in sent THEN x \in fine ELSE told[x]]

\* Mutant: the machines are only looked at in rounds that got an answer.
CheckWhenOk(st, elapsed, reqOk) ==
    Check(IF reqOk THEN st ELSE [m \in Machines |-> "absent"], elapsed, reqOk)

\* How check() is called: in every round, with whatever states holds.
Checked(st, elapsed, reqOk) == Check(st, elapsed, reqOk)

-----------------------------------------------------------------------------

AnyStates == [Machines -> {"on", "off", "absent"}]

\* One turn of the loop: new states after an answer or a snapshot, the same ones
\* after neither; what check() is told is whether the /sample request went well.
Round(elapsed) ==
    /\ running
    /\ \E reqOk \in BOOLEAN, st \in AnyStates :
          /\ Checked(st, elapsed, reqOk)
          /\ states' = st
    /\ UNCHANGED running

StopStream ==
    /\ running
    /\ running' = FALSE
    /\ UNCHANGED <<states, offlineSince, lastOfflineAlert, lastReqOk, lastReqFailAlert, told>>

\* Process start: empty maps, and the snapshot's states; no check yet.
StartStream ==
    /\ ~running
    /\ running' = TRUE
    /\ states' \in AnyStates
    /\ offlineSince' = {}
    /\ lastOfflineAlert' = [m \in {} |-> 0]
    /\ lastReqOk' = TRUE
    /\ lastReqFailAlert' = EverySec
    /\ UNCHANGED told

AlertInit ==
    /\ running = FALSE
    /\ states = [m \in Machines |-> "absent"]
    /\ offlineSince = {}
    /\ lastOfflineAlert = [m \in {} |-> 0]
    /\ lastReqOk = TRUE
    /\ lastReqFailAlert = EverySec
    /\ told = [x \in Machines \cup {Link} |-> TRUE]

\* A round may take less than a second.
AlertNext ==
    \/ \E elapsed \in 0..1 : Round(elapsed)
    \/ StopStream
    \/ StartStream

AlertSpec == AlertInit /\ [][AlertNext]_alertVars

\* Time passes, and the webhook does not lose every notice about x.
AlertFairSpec ==
    /\ AlertSpec
    /\ SF_alertVars(Round(1))
    /\ \A x \in Machines \cup {Link} :
          SF_alertVars(Round(1) /\ told[x] /\ ~told'[x])

-----------------------------------------------------------------------------
(* Properties. *)

\* Types; the two maps of AlertTracker always have the same machines (check).
AlertTypeOK ==
    /\ running \in BOOLEAN
    /\ states \in AnyStates
    /\ offlineSince \in SUBSET Machines
    /\ lastOfflineAlert \in [offlineSince -> Ages]
    /\ lastReqOk \in BOOLEAN
    /\ lastReqFailAlert \in Ages
    /\ told \in [Machines \cup {Link} -> BOOLEAN]

\* After every check, the maps hold exactly the machines that read offline among
\* those `states` has - also after rounds without an answer, after machines that
\* vanished from a snapshot and came back, after alerts in the same second.
TrackerFollowsStates ==
    [][\A e \in 0..1 : Round(e) =>
          \A m \in Machines : states'[m] # "absent" =>
              (m \in offlineSince' <=> states'[m] = "off")]_alertVars

\* A machine that stays offline, and an agent that stays away, are told to the
\* operator in the end, even though a send that fails is not tried again: the
\* repeated notice makes up for it.
OperatorLearnsOfTrouble ==
    /\ \A m \in Machines :
          <>[](running /\ states[m] = "off") => []<>(~told[m])
    /\ <>[](running /\ ~lastReqOk) => []<>(~told[Link])

=============================================================================
