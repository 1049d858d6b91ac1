---------------------------- MODULE ShdrAdapter ----------------------------
(***************************************************************************)
(* An SHDR adapter process: the loop of Adapter::startServer               *)
(* (src/mtconnect_collect/src/adapter.cpp) with its Server (server.cpp),   *)
(* its data (device_datum.cpp), and the two sources that fill them, the    *)
(* FANUC adapter (fanuc_adapter.cpp) and the Mazak adapter                 *)
(* (mazak_adapter.cpp).  The clients are agents that connect, restart,     *)
(* close and hang as they like.                                            *)
(*                                                                         *)
(* One pass of the loop: accept at most one client and send out "initial   *)
(* data", read from all clients, then, if there is any client, gather and  *)
(* send what changed.                                                      *)
(*                                                                         *)
(* Simplifications: data whose classes behave alike are one datum, see     *)
(* Data; what clients send other than PING is ignored by the code; an      *)
(* agent that lives pings in time; send() does not block.  Both adapters   *)
(* leave clientsDisconnected empty.  flush(), which FANUC's unavailable()  *)
(* ends with, sends at once what sendChangedData would send later in the   *)
(* same pass, and nothing during initial data (mDisableFlush).             *)
(***************************************************************************)
EXTENDS Integers, FiniteSets

CONSTANTS
    Clients,    \* agents
    Readings,   \* what the machine may report
    MaxClients  \* MAX_CLIENTS

ASSUME ShdrAssumption == MaxClients \in Nat \ {0}

VARIABLES
    source,    \* which adapter this process is; never changes
    machineUp, \* the machine answers
    peer,      \* what the agent does with its end of the connection
    backlog,   \* agents waiting to be accepted
    clients,   \* mClients
    beating,   \* clients with mHeartbeats
    view,      \* what an agent was sent last, of each datum
    datum,     \* the DeviceDatum of that name
    connected, \* mConnected
    pc         \* where the loop stands

vars == <<source, machineUp, peer, backlog, clients, beating, view, datum, connected, pc>>

Unavailable == "UNAVAILABLE"
Available   == "AVAILABLE"
Unknown     == "unknown"

\* "avail": Availability. "exec": Event, Condition, Message and the enumerations.
\* "part": Sample, IntEvent and PathPosition.
Data == {"avail", "exec", "part"}
Reported(d) == (IF d = "avail" THEN {Available} ELSE Readings) \cup {Unavailable}

\* What toString prints, mChanged and mHasValue.
Datum == [value : (UNION {Reported(d) : d \in Data}) \cup {Unknown}, changed : BOOLEAN, has : BOOLEAN]

NothingSent == [d \in Data |-> Unknown]

-----------------------------------------------------------------------------
(* Data. *)

\* setValue.
SetValue(x, v) ==
    IF x.value # v \/ ~x.has THEN [value |-> v, changed |-> TRUE, has |-> TRUE] ELSE x

\* Availability::available and unavailable, and unavailable of the numbers: these
\* leave mHasValue alone.
Switch(x, v) == IF x.value # v THEN [x EXCEPT !.value = v, !.changed = TRUE] ELSE x

MakeUnavailable(d, x) ==
    IF d = "exec" THEN SetValue(x, Unavailable) ELSE Switch(x, Unavailable)

\* Mutant: data that have no value yet are passed over.
SomeUnavailable(data) ==
    [d \in Data |-> IF data[d].has THEN MakeUnavailable(d, data[d]) ELSE data[d]]

\* Adapter::unavailable.
AllUnavailable(data) == [d \in Data |-> MakeUnavailable(d, data[d])]

\* The data the machine was asked for are set, some of them or all.
Readable(data) ==
    {[d \in Data |-> IF d \in got THEN SetValue(data[d], v[d]) ELSE data[d]] :
        got \in SUBSET {"exec", "part"}, v \in [{"exec", "part"} -> Readings]}

AvailSwitched(data, v) == [data EXCEPT !["avail"] = Switch(@, v)]

-----------------------------------------------------------------------------
(* The agents and the machine. *)

ClientConnects(c) ==
    /\ peer[c] = "out"
    /\ peer' = [peer EXCEPT ![c] = "open"]
    /\ backlog' = backlog \cup {c}
    /\ UNCHANGED <<source, machineUp, clients, beating, view, datum, connected, pc>>

ClientCloses(c) ==
    /\ peer[c] \in {"open", "silent"}
    /\ peer' = [peer EXCEPT ![c] = "closed"]
    /\ UNCHANGED <<source, machineUp, backlog, clients, beating, view, datum, connected, pc>>

\* The agent's host is gone: no data, and no end of the connection either.
ClientHangs(c) ==
    /\ peer[c] = "open"
    /\ peer' = [peer EXCEPT ![c] = "silent"]
    /\ UNCHANGED <<source, machineUp, backlog, clients, beating, view, datum, connected, pc>>

MachineSwitches ==
    /\ machineUp' = ~machineUp
    /\ UNCHANGED <<source, peer, backlog, clients, beating, view, datum, connected, pc>>

-----------------------------------------------------------------------------
(* The server. *)

\* Mutant: removeClient does not delete the Client, which closes its socket.
RemoveLeaking(gone) == clients' = clients \ gone /\ UNCHANGED peer

\* removeClient.
Remove(gone) ==
    /\ clients' = clients \ gone
    /\ peer' = [c \in Clients |-> IF c \in gone THEN "out" ELSE peer[c]]

\* connectToClients: one accept; when the list is full the connection is closed.
Accept(c) ==
    /\ pc = "accept" /\ c \in backlog
    /\ backlog' = backlog \ {c}
    /\ IF Cardinality(clients) < MaxClients
       THEN clients' = clients \cup {c} /\ pc' = "initialGather" /\ UNCHANGED peer
       ELSE pc' = "read" /\ peer' = [peer EXCEPT ![c] = "out"] /\ UNCHANGED clients
    /\ UNCHANGED <<source, machineUp, beating, view, datum, connected>>

NobodyToAccept ==
    /\ pc = "accept" /\ backlog = {}
    /\ pc' = "read"
    /\ UNCHANGED <<source, machineUp, peer, backlog, clients, beating, view, datum, connected>>

\* readFromClients: a connection that ended is removed, PING starts the heartbeat
\* of its client, and a silent client with a heartbeat times out in the end.
Read ==
    /\ pc = "read"
    /\ \E late \in SUBSET {c \in clients \cap beating : peer[c] = "silent"},
          ping \in SUBSET {c \in clients : peer[c] = "open"} :
          LET gone == {c \in clients : peer[c] = "closed"} \cup late
          IN  /\ Remove(gone)
              /\ beating' = (beating \cup ping) \ gone
              /\ view' = [c \in Clients |-> IF c \in gone THEN NothingSent ELSE view[c]]
    /\ pc' = IF clients' = {} THEN "accept" ELSE "gather"
    /\ UNCHANGED <<source, machineUp, backlog, datum, connected>>

\* sendToClients with the data of `sent`: everybody in the list gets them, the
\* write to a connection that its agent closed may fail and remove the client.
Send(sent) ==
    /\ \E gone \in SUBSET {c \in clients : peer[c] = "closed"} :
          /\ Remove(gone)
          /\ beating' = beating \ gone
          /\ view' = [c \in Clients |->
                        IF c \in gone THEN NothingSent
                        ELSE IF c \notin clients THEN view[c]
                        ELSE [d \in Data |-> IF d \in sent THEN datum[d].value ELSE view[c][d]]]
    /\ datum' = [d \in Data |->
                    IF d \in sent THEN [datum[d] EXCEPT !.changed = FALSE] ELSE datum[d]]

\* Mutant: mChanged of every datum is cleared.
InitialSendClearing ==
    /\ pc = "initialSend"
    /\ view' = [c \in Clients |->
                  IF c \notin clients THEN view[c]
                  ELSE [d \in Data |-> IF datum[d].has THEN datum[d].value ELSE view[c][d]]]
    /\ datum' = [d \in Data |-> [datum[d] EXCEPT !.changed = FALSE]]
    /\ pc' = "read"
    /\ UNCHANGED <<source, machineUp, peer, backlog, clients, beating, connected>>

\* sendInitialData: to everybody, the data that have a value.
InitialSend ==
    /\ pc = "initialSend"
    /\ Send({d \in Data : datum[d].has})
    /\ pc' = "read"
    /\ UNCHANGED <<source, machineUp, backlog, connected>>

\* sendChangedData.
SendChanged ==
    /\ pc = "send"
    /\ Send({d \in Data : datum[d].changed})
    /\ pc' = "accept"
    /\ UNCHANGED <<source, machineUp, backlog, connected>>

-----------------------------------------------------------------------------
(* The sources: gatherDeviceData, for initial data and in every pass. *)

\* FanucAdapter::connect, which also resets the conditions.
FanucConnects ==
    /\ ~connected /\ machineUp
    /\ connected' = TRUE
    /\ datum' \in {AvailSwitched(x, Available) :
                     x \in {y \in Readable(datum) : y["part"] = datum["part"]}}

FanucConnectFails ==
    /\ ~connected
    /\ datum' = AllUnavailable(datum)
    /\ UNCHANGED connected

\* A round of readings. getPositions and getStatus disconnect when they fail, the
\* other calls leave their data alone.
FanucReads ==
    /\ connected /\ machineUp
    /\ datum' \in Readable(datum)
    /\ UNCHANGED connected

FanucReadFails ==
    /\ connected
    /\ connected' = FALSE
    /\ datum' \in {AllUnavailable(x) : x \in Readable(datum)}

\* MazakAdapter has a connection of its own for every round. Its answer is mapped
\* line by line, and may say "avail" itself; a slow machine is skipped.
MazakAnswers ==
    /\ machineUp
    /\ \E a \in Reported("avail") :
          datum' \in Readable(AvailSwitched(AvailSwitched(datum, Available), a))

\* A failure touches nothing but the availability.
MazakUnreachable == datum' = AvailSwitched(datum, Unavailable)
MazakBreaks      == datum' = AvailSwitched(AvailSwitched(datum, Available), Unavailable)

Gather ==
    /\ pc \in {"initialGather", "gather"}
    /\ \/ /\ source = "fanuc"
          /\ FanucConnects \/ FanucConnectFails \/ FanucReads \/ FanucReadFails
       \/ /\ source = "mazak"
          /\ MazakAnswers \/ MazakUnreachable \/ MazakBreaks
          /\ UNCHANGED connected
    /\ pc' = IF pc = "gather" THEN "send" ELSE "initialSend"
    /\ UNCHANGED <<source, machineUp, peer, backlog, clients, beating, view>>

-----------------------------------------------------------------------------

Init ==
    /\ source \in {"fanuc", "mazak"}
    /\ machineUp \in BOOLEAN
    /\ peer = [c \in Clients |-> "out"]
    /\ backlog = {} /\ clients = {} /\ beating = {}
    /\ view = [c \in Clients |-> NothingSent]
    \* the constructors of both adapters call mAvail.unavailable()
    /\ datum = [d \in Data |-> IF d = "avail" THEN [value |-> Unavailable, changed |-> TRUE, has |-> FALSE]
                               ELSE [value |-> Unknown, changed |-> FALSE, has |-> FALSE]]
    /\ connected = FALSE
    /\ pc = "accept"

Loop ==
    \/ \E c \in Clients : Accept(c)
    \/ NobodyToAccept
    \/ Read
    \/ InitialSend
    \/ SendChanged
    \/ Gather

Environment ==
    \/ \E c \in Clients : ClientConnects(c) \/ ClientCloses(c) \/ ClientHangs(c)
    \/ MachineSwitches

Next == Loop \/ Environment

Spec == Init /\ [][Next]_vars

\* The loop runs until the process is stopped.
FairSpec == Spec /\ WF_vars(Loop)

-----------------------------------------------------------------------------
(* Properties. *)

\* Types; the list of clients never exceeds MAX_CLIENTS and holds no closed socket
\* (Server::connectToClients, removeClient).
TypeOK ==
    /\ source \in {"fanuc", "mazak"}
    /\ machineUp \in BOOLEAN
    /\ peer \in [Clients -> {"out", "open", "silent", "closed"}]
    /\ backlog \in SUBSET Clients
    /\ clients \in SUBSET (Clients \ backlog)
    /\ Cardinality(clients) <= MaxClients
    /\ beating \in SUBSET clients
    /\ \A c \in Clients : peer[c] = "out" <=> c \notin clients \cup backlog
    /\ \A c \in Clients \ clients : view[c] = NothingSent
    /\ view \in [Clients -> [Data -> (UNION {Reported(d) : d \in Data}) \cup {Unknown}]]
    /\ datum \in [Data -> Datum]
    /\ connected \in BOOLEAN
    /\ pc \in {"accept", "initialGather", "initialSend", "read", "gather", "send"}

\* No agent is left with an old value: at the end of a pass every agent in the
\* list was sent the present value of every datum last - or nothing at all, of a
\* datum that still has no value in the sense of hasInitialValue. Initial data
\* for one agent go to all and clear mChanged for all; agents come and go in the
\* middle of sends; readings that fail change data in the middle of a gather.
NoStaleView ==
    pc = "accept" =>
        \A c \in clients, d \in Data :
            \/ view[c][d] = datum[d].value
            \/ view[c][d] = Unknown /\ ~datum[d].has

\* A machine that is gone is reported gone: an agent that stays connected does
\* not keep believing it is available, nor, with FANUC, its last readings.
OutageIsReported ==
    \A c \in Clients :
        <>[](~machineUp /\ c \in clients)
            => <>[](/\ view[c]["avail"] # Available
                    /\ source = "fanuc" => \A d \in Data : view[c][d] \notin Readings)

=============================================================================
