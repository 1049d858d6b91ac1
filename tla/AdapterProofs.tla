--------------------------- MODULE AdapterProofs ---------------------------
(***************************************************************************)
(* Proofs about an adapter's agents and about the simulated machine that   *)
(* can stand behind an adapter, which do not know of each other: one       *)
(* section each, with the inductive invariant of the component, a lemma    *)
(* for each part of it, and the theorems.                                  *)
(***************************************************************************)
EXTENDS ShdrAdapter, CncSim, FiniteSetTheorems, TLAPS

-----------------------------------------------------------------------------
(***************************************************************************)
(* ShdrAdapter: types, and that no agent is left with an old value, for    *)
(* every set of agents and readings and every MaxClients.                  *)
(*                                                                         *)
(* NoStaleView rests on mChanged being a promise: between two passes an    *)
(* agent's view of a datum may be old only while the datum is marked       *)
(* changed, or the agent was sent nothing of it yet (Owed).  Whatever the  *)
(* sources do to the data keeps that promise, because a datum that is not  *)
(* left alone is marked (Later); and the end of a pass finds no mark.      *)
(***************************************************************************)
Values == (UNION {Reported(d) : d \in Data}) \cup {Unknown}

Loading == {"initialGather", "initialSend"}

\* What an agent may still be owed.
Owed ==
    \A c \in clients, d \in Data :
        \/ view[c][d] = datum[d].value
        \/ datum[d].changed
        \/ view[c][d] = Unknown /\ (~datum[d].has \/ pc \in Loading)

\* At the end of a pass nothing is marked for those that are in the list.
PassDone == pc = "accept" => clients = {} \/ \A d \in Data : ~datum[d].changed

IInv == TypeOK /\ IsFiniteSet(clients) /\ Owed /\ PassDone

-----------------------------------------------------------------------------
(* What the sources do to the data. *)

\* Data that were left alone or marked.
Later(x, y) ==
    /\ y \in [Data -> Datum]
    /\ \A d \in Data : y[d].changed \/ y[d] = x[d]

LEMMA InValues ==
    /\ Available \in Values /\ Unavailable \in Values /\ Unknown \in Values
    /\ Readings \subseteq Values
  <1>1. Reported("avail") \subseteq Values /\ Reported("exec") \subseteq Values
    BY DEF Values, Data
  <1>2. Unknown \in Values
    BY DEF Values
  <1>3. Available \in Reported("avail") /\ Unavailable \in Reported("avail")
    BY DEF Reported
  <1>4. Readings \subseteq Reported("exec")
    BY DEF Reported
  <1> QED
    BY <1>1, <1>2, <1>3, <1>4

LEMMA DatumFields ==
    ASSUME NEW x \in Datum
    PROVE  x \in [value : Values, changed : BOOLEAN, has : BOOLEAN]
  BY DEF Datum, Values

LEMMA UnmarkedDatum ==
    ASSUME NEW x \in Datum
    PROVE  [x EXCEPT !.changed = FALSE] \in Datum
  BY DatumFields DEF Datum, Values

\* setValue marks what it changes.
LEMMA SetValueLater ==
    ASSUME NEW x \in Datum, NEW v \in Values
    PROVE  SetValue(x, v) \in Datum /\ (SetValue(x, v).changed \/ SetValue(x, v) = x)
  BY DatumFields DEF SetValue, Datum, Values

\* So do the others.
LEMMA SwitchLater ==
    ASSUME NEW x \in Datum, NEW v \in Values
    PROVE  Switch(x, v) \in Datum /\ (Switch(x, v).changed \/ Switch(x, v) = x)
  BY DatumFields DEF Switch, Datum, Values

LEMMA ReadableLater ==
    ASSUME NEW x \in [Data -> Datum], NEW y \in Readable(x)
    PROVE  Later(x, y)
  <1>1. PICK got \in SUBSET {"exec", "part"}, v \in [{"exec", "part"} -> Readings] :
            y = [d \in Data |-> IF d \in got THEN SetValue(x[d], v[d]) ELSE x[d]]
    BY DEF Readable
  <1>2. ASSUME NEW d \in Data PROVE y[d] \in Datum /\ (y[d].changed \/ y[d] = x[d])
    <2>1. CASE d \in got
      <3>1. v[d] \in Values /\ x[d] \in Datum
        BY <2>1, InValues
      <3> QED
        BY <1>1, <2>1, <3>1, SetValueLater
    <2>2. CASE d \notin got
      BY <1>1, <2>2
    <2> QED
      BY <2>1, <2>2
  <1> QED
    BY <1>1, <1>2 DEF Later

LEMMA AllUnavailableLater ==
    ASSUME NEW x \in [Data -> Datum]
    PROVE  Later(x, AllUnavailable(x))
  <1>1. ASSUME NEW d \in Data
        PROVE  /\ MakeUnavailable(d, x[d]) \in Datum
               /\ MakeUnavailable(d, x[d]).changed \/ MakeUnavailable(d, x[d]) = x[d]
    BY InValues, SetValueLater, SwitchLater DEF MakeUnavailable
  <1> QED
    BY <1>1 DEF AllUnavailable, Later

LEMMA AvailSwitchedLater ==
    ASSUME NEW x \in [Data -> Datum], NEW v \in Values
    PROVE  Later(x, AvailSwitched(x, v))
  <1>1. /\ Switch(x["avail"], v) \in Datum
        /\ Switch(x["avail"], v).changed \/ Switch(x["avail"], v) = x["avail"]
    BY SwitchLater DEF Data
  <1> QED
    BY <1>1 DEF AvailSwitched, Later, Data

LEMMA LaterTransitive ==
    ASSUME NEW x, NEW y, NEW z, Later(x, y), Later(y, z)
    PROVE  Later(x, z)
  BY DEF Later

\* A gather leaves a datum alone or marks it.
LEMMA GatherLater ==
    ASSUME datum \in [Data -> Datum], Gather
    PROVE  Later(datum, datum')
  <1>1. CASE FanucConnects
    <2>1. PICK x \in Readable(datum) : datum' = AvailSwitched(x, Available)
      BY <1>1 DEF FanucConnects
    <2>2. Later(datum, x) /\ x \in [Data -> Datum]
      BY ReadableLater DEF Later
    <2> QED
      BY <2>1, <2>2, InValues, AvailSwitchedLater, LaterTransitive
  <1>2. CASE FanucConnectFails
    BY <1>2, AllUnavailableLater DEF FanucConnectFails
  <1>3. CASE FanucReads
    BY <1>3, ReadableLater DEF FanucReads
  <1>4. CASE FanucReadFails
    <2>1. PICK x \in Readable(datum) : datum' = AllUnavailable(x)
      BY <1>4 DEF FanucReadFails
    <2>2. Later(datum, x) /\ x \in [Data -> Datum]
      BY ReadableLater DEF Later
    <2> QED
      BY <2>1, <2>2, AllUnavailableLater, LaterTransitive
  <1>5. ASSUME NEW v \in Values, NEW w \in Values
        PROVE  LET x == AvailSwitched(AvailSwitched(datum, v), w)
               IN  Later(datum, x) /\ x \in [Data -> Datum]
    <2> DEFINE x1 == AvailSwitched(datum, v)
    <2> DEFINE x2 == AvailSwitched(x1, w)
    <2>1. Later(datum, x1) /\ x1 \in [Data -> Datum]
      BY AvailSwitchedLater DEF Later
    <2>2. Later(x1, x2) /\ x2 \in [Data -> Datum]
      BY <2>1, AvailSwitchedLater DEF Later
    <2> QED
      BY <2>1, <2>2, LaterTransitive
  <1>6. CASE MazakAnswers
    <2>1. PICK a \in Reported("avail") :
             datum' \in Readable(AvailSwitched(AvailSwitched(datum, Available), a))
      BY <1>6 DEF MazakAnswers
    <2> DEFINE x == AvailSwitched(AvailSwitched(datum, Available), a)
    <2>2. a \in Values /\ Available \in Values
      BY InValues DEF Values, Data
    <2>3. Later(datum, x) /\ x \in [Data -> Datum]
      BY <1>5, <2>2
    <2> HIDE DEF x
    <2>4. Later(x, datum')
      BY <2>1, <2>3, ReadableLater DEF x
    <2> QED
      BY <2>3, <2>4, LaterTransitive
  <1>7. CASE MazakUnreachable
    BY <1>7, InValues, AvailSwitchedLater DEF MazakUnreachable
  <1>8. CASE MazakBreaks
    BY <1>8, <1>5, InValues DEF MazakBreaks
  <1> QED
    BY <1>1, <1>2, <1>3, <1>4, <1>6, <1>7, <1>8 DEF Gather

-----------------------------------------------------------------------------
(* The list of clients. *)

LEMMA SmallerList ==
    ASSUME IsFiniteSet(clients), Cardinality(clients) <= MaxClients,
           NEW S, S \subseteq clients
    PROVE  IsFiniteSet(S) /\ Cardinality(S) <= MaxClients
  BY FS_Subset, FS_CardinalityType, ShdrAssumption

LEMMA LongerList ==
    ASSUME IsFiniteSet(clients), Cardinality(clients) < MaxClients, NEW c
    PROVE  /\ IsFiniteSet(clients \cup {c})
           /\ Cardinality(clients \cup {c}) <= MaxClients
  <1>1. IsFiniteSet(clients \cup {c}) /\ Cardinality(clients) \in Nat
    BY FS_AddElement, FS_CardinalityType
  <1>2. CASE c \in clients
    <2>1. clients \cup {c} = clients
      BY <1>2
    <2> QED
      BY <1>1, <2>1, ShdrAssumption
  <1>3. CASE c \notin clients
    <2>1. Cardinality(clients \cup {c}) = Cardinality(clients) + 1
      BY <1>3, FS_AddElement
    <2> QED
      BY <1>1, <2>1, ShdrAssumption
  <1> QED
    BY <1>2, <1>3

-----------------------------------------------------------------------------
(* The invariant is inductive. *)

LEMMA InitIInv == Init => IInv
  <1> SUFFICES ASSUME Init PROVE IInv
    OBVIOUS
  <1>1. clients = {} /\ IsFiniteSet(clients) /\ Cardinality(clients) <= MaxClients
    BY FS_EmptySet, ShdrAssumption DEF Init
  <1>2. datum \in [Data -> Datum]
    BY InValues DEF Init, Datum, Values
  <1>3. view \in [Clients -> [Data -> Values]]
    BY InValues DEF Init, NothingSent
  <1>4. TypeOK
    BY <1>1, <1>2, <1>3 DEF Init, TypeOK, Values
  <1> QED
    BY <1>1, <1>4 DEF IInv, Owed, PassDone

LEMMA EnvironmentIInv == IInv /\ Environment => IInv'
  <1> SUFFICES ASSUME IInv, Environment PROVE IInv'
    OBVIOUS
  <1>1. UNCHANGED <<clients, beating, view, datum, pc, connected, source>>
    BY DEF Environment, ClientConnects, ClientCloses, ClientHangs, MachineSwitches
  <1>2. /\ peer' \in [Clients -> {"out", "open", "silent", "closed"}]
        /\ backlog' \in SUBSET Clients /\ clients' \in SUBSET (Clients \ backlog')
        /\ \A c \in Clients : peer'[c] = "out" <=> c \notin clients' \cup backlog'
        /\ machineUp' \in BOOLEAN
    BY DEF IInv, TypeOK, Environment, ClientConnects, ClientCloses, ClientHangs, MachineSwitches
  <1>3. TypeOK'
    BY <1>1, <1>2 DEF IInv, TypeOK
  <1> QED
    BY <1>1, <1>3 DEF IInv, Owed, PassDone

LEMMA AcceptIInv == ASSUME IInv, NEW c \in Clients, Accept(c) PROVE IInv'
  <1>1. c \in backlog /\ c \notin clients /\ view[c] = NothingSent
    BY DEF IInv, TypeOK, Accept
  <1>2. CASE Cardinality(clients) < MaxClients
    <2>1. clients' = clients \cup {c} /\ pc' = "initialGather"
      BY <1>2 DEF Accept
    <2>2. IsFiniteSet(clients') /\ Cardinality(clients') <= MaxClients
      BY <1>2, <2>1, LongerList DEF IInv
    <2>3. TypeOK'
      BY <1>1, <1>2, <2>1, <2>2 DEF IInv, TypeOK, Accept
    <2>4. Owed'
      BY <1>1, <2>1 DEF IInv, Owed, Accept, NothingSent, Loading
    <2> QED
      BY <2>1, <2>2, <2>3, <2>4 DEF IInv, PassDone
  <1>3. CASE ~(Cardinality(clients) < MaxClients)
    <2>1. TypeOK'
      BY <1>1, <1>3 DEF IInv, TypeOK, Accept
    <2>2. Owed'
      BY <1>3 DEF IInv, Owed, Accept, Loading
    <2> QED
      BY <1>3, <2>1, <2>2 DEF IInv, PassDone, Accept
  <1> QED
    BY <1>2, <1>3

LEMMA NobodyToAcceptIInv == IInv /\ NobodyToAccept => IInv'
  <1> SUFFICES ASSUME IInv, NobodyToAccept PROVE IInv'
    OBVIOUS
  <1>1. TypeOK'
    BY DEF IInv, TypeOK, NobodyToAccept
  <1>2. Owed' /\ PassDone'
    BY DEF IInv, Owed, PassDone, NobodyToAccept, Loading
  <1> QED
    BY <1>1, <1>2 DEF IInv, NobodyToAccept

LEMMA ReadIInv == IInv /\ Read => IInv'
  <1> SUFFICES ASSUME IInv, Read PROVE IInv'
    OBVIOUS
  <1>1. PICK late \in SUBSET {c \in clients \cap beating : peer[c] = "silent"},
             ping \in SUBSET {c \in clients : peer[c] = "open"} :
           LET gone == {c \in clients : peer[c] = "closed"} \cup late
           IN  /\ Remove(gone)
               /\ beating' = (beating \cup ping) \ gone
               /\ view' = [c \in Clients |-> IF c \in gone THEN NothingSent ELSE view[c]]
    BY DEF Read
  <1> DEFINE gone == {c \in clients : peer[c] = "closed"} \cup late
  <1>2. gone \subseteq clients /\ clients' = clients \ gone
    BY <1>1 DEF Remove
  <1>3. IsFiniteSet(clients') /\ Cardinality(clients') <= MaxClients
    BY <1>2, SmallerList DEF IInv, TypeOK
  <1>4. NothingSent \in [Data -> Values]
    BY InValues DEF NothingSent
  <1>5. view' \in [Clients -> [Data -> Values]]
    BY <1>1, <1>4 DEF IInv, TypeOK, Values
  <1>6. peer' = [c \in Clients |-> IF c \in gone THEN "out" ELSE peer[c]]
    BY <1>1 DEF Remove
  <1>7. TypeOK'
    BY <1>1, <1>2, <1>3, <1>5, <1>6 DEF IInv, TypeOK, Read, Values
  <1>8. Owed'
    BY <1>1, <1>2 DEF IInv, TypeOK, Owed, Read, Loading
  <1> QED
    BY <1>3, <1>7, <1>8 DEF IInv, PassDone, Read

\* Who is left after a send is owed nothing of what was sent.
LEMMA SendKeeps ==
    ASSUME IInv, NEW sent \in SUBSET Data, Send(sent), pc' \in {"read", "accept"},
           UNCHANGED <<source, machineUp, backlog, connected>>
    PROVE  /\ TypeOK' /\ IsFiniteSet(clients')
           /\ \A c \in clients' : c \in clients
           /\ \A c \in clients', d \in sent : view'[c][d] = datum'[d].value
           /\ \A c \in clients', d \in Data \ sent : view'[c][d] = view[c][d]
           /\ \A d \in Data : /\ datum'[d].value = datum[d].value
                               /\ datum'[d].has = datum[d].has
                               /\ datum'[d].changed = (datum[d].changed /\ d \notin sent)
  <1>1. PICK gone \in SUBSET {c \in clients : peer[c] = "closed"} :
           /\ Remove(gone)
           /\ beating' = beating \ gone
           /\ view' = [c \in Clients |->
                         IF c \in gone THEN NothingSent
                         ELSE IF c \notin clients THEN view[c]
                         ELSE [d \in Data |-> IF d \in sent THEN datum[d].value ELSE view[c][d]]]
    BY DEF Send
  <1>2. clients' = clients \ gone /\ peer' = [c \in Clients |-> IF c \in gone THEN "out" ELSE peer[c]]
    BY <1>1 DEF Remove
  <1>3. IsFiniteSet(clients') /\ Cardinality(clients') <= MaxClients
    BY <1>2, SmallerList DEF IInv, TypeOK
  <1>4. \A d \in Data : /\ datum[d] \in Datum /\ datum[d].value \in Values
                        /\ datum[d].changed \in BOOLEAN /\ datum[d].has \in BOOLEAN
    BY DatumFields DEF IInv, TypeOK
  <1>5. datum' = [d \in Data |->
                    IF d \in sent THEN [datum[d] EXCEPT !.changed = FALSE] ELSE datum[d]]
    BY DEF Send
  <1>6. \A d \in Data : [datum[d] EXCEPT !.changed = FALSE] \in Datum
    BY <1>4, UnmarkedDatum
  <1>7. datum' \in [Data -> Datum]
    BY <1>4, <1>5, <1>6
  <1>8. \A d \in Data : /\ datum'[d].value = datum[d].value
                        /\ datum'[d].has = datum[d].has
                        /\ datum'[d].changed = (datum[d].changed /\ d \notin sent)
    BY <1>4, <1>5 DEF IInv, TypeOK, Datum
  <1>9. NothingSent \in [Data -> Values]
    BY InValues DEF NothingSent
  <1>10. view' \in [Clients -> [Data -> Values]]
    BY <1>1, <1>4, <1>9 DEF IInv, TypeOK, Values
  <1>11. TypeOK'
    BY <1>1, <1>2, <1>3, <1>7, <1>10 DEF IInv, TypeOK, Values
  <1>12. \A c \in clients' : c \in clients /\ c \in Clients /\ c \notin gone
    BY <1>2 DEF IInv, TypeOK
  <1>13. \A c \in clients', d \in sent : view'[c][d] = datum[d].value
    BY <1>1, <1>12
  <1>14. \A c \in clients', d \in Data \ sent : view'[c][d] = view[c][d]
    BY <1>1, <1>12
  <1> QED
    BY <1>3, <1>8, <1>11, <1>12, <1>13, <1>14

LEMMA InitialSendIInv == IInv /\ InitialSend => IInv'
  <1> SUFFICES ASSUME IInv, InitialSend PROVE IInv'
    OBVIOUS
  <1> DEFINE sent == {d \in Data : datum[d].has}
  <1>1. Send(sent) /\ sent \in SUBSET Data /\ pc' = "read"
        /\ UNCHANGED <<source, machineUp, backlog, connected>>
    BY DEF InitialSend
  <1> HIDE DEF sent
  <1>2. /\ TypeOK' /\ IsFiniteSet(clients')
        /\ \A c \in clients' : c \in clients
        /\ \A c \in clients', d \in sent : view'[c][d] = datum'[d].value
        /\ \A c \in clients', d \in Data \ sent : view'[c][d] = view[c][d]
        /\ \A d \in Data : /\ datum'[d].value = datum[d].value
                            /\ datum'[d].has = datum[d].has
                            /\ datum'[d].changed = (datum[d].changed /\ d \notin sent)
    BY <1>1, SendKeeps
  <1>3. \A d \in Data \ sent : ~datum[d].has
    BY DEF sent
  <1>4. Owed'
    <2> SUFFICES ASSUME NEW c \in clients', NEW d \in Data
                 PROVE  \/ view'[c][d] = datum'[d].value
                        \/ datum'[d].changed
                        \/ view'[c][d] = Unknown /\ (~datum'[d].has \/ pc' \in Loading)
      BY DEF Owed
    <2>1. CASE d \in sent
      BY <2>1, <1>2
    <2>2. CASE d \notin sent
      <3>1. view'[c][d] = view[c][d] /\ datum'[d].value = datum[d].value
        BY <1>2, <2>2
      <3>2. ~datum'[d].has /\ (datum[d].changed => datum'[d].changed)
        BY <1>2, <1>3, <2>2
      <3>3. view[c][d] = datum[d].value \/ datum[d].changed \/ view[c][d] = Unknown
        BY <1>2 DEF IInv, Owed
      <3>4. QED
        BY <3>1, <3>2, <3>3
    <2> QED
      BY <2>1, <2>2
  <1> QED
    BY <1>1, <1>2, <1>4 DEF IInv, PassDone

LEMMA SendChangedIInv == IInv /\ SendChanged => IInv'
  <1> SUFFICES ASSUME IInv, SendChanged PROVE IInv'
    OBVIOUS
  <1> DEFINE sent == {d \in Data : datum[d].changed}
  <1>1. Send(sent) /\ sent \in SUBSET Data /\ pc = "send" /\ pc' = "accept"
        /\ UNCHANGED <<source, machineUp, backlog, connected>>
    BY DEF SendChanged
  <1> HIDE DEF sent
  <1>2. /\ TypeOK' /\ IsFiniteSet(clients')
        /\ \A c \in clients' : c \in clients
        /\ \A c \in clients', d \in sent : view'[c][d] = datum'[d].value
        /\ \A c \in clients', d \in Data \ sent : view'[c][d] = view[c][d]
        /\ \A d \in Data : /\ datum'[d].value = datum[d].value
                            /\ datum'[d].has = datum[d].has
                            /\ datum'[d].changed = (datum[d].changed /\ d \notin sent)
    BY <1>1, SendKeeps
  <1>3. \A d \in Data : d \notin sent => ~datum[d].changed
    BY DEF sent
  <1>4. \A d \in Data : ~datum'[d].changed
    BY <1>2, <1>3
  <1>5. Owed'
    <2> SUFFICES ASSUME NEW c \in clients', NEW d \in Data
                 PROVE  \/ view'[c][d] = datum'[d].value
                        \/ datum'[d].changed
                        \/ view'[c][d] = Unknown /\ (~datum'[d].has \/ pc' \in Loading)
      BY DEF Owed
    <2>1. CASE d \in sent
      BY <2>1, <1>2
    <2>2. CASE d \notin sent
      BY <2>2, <1>1, <1>2, <1>3 DEF IInv, Owed, Loading
    <2> QED
      BY <2>1, <2>2
  <1> QED
    BY <1>2, <1>4, <1>5 DEF IInv, PassDone

LEMMA GatherIInv == IInv /\ Gather => IInv'
  <1> SUFFICES ASSUME IInv, Gather PROVE IInv'
    OBVIOUS
  <1>1. Later(datum, datum')
    BY GatherLater DEF IInv, TypeOK
  <1>2. UNCHANGED <<source, machineUp, peer, backlog, clients, beating, view>>
    BY DEF Gather
  <1>3. connected' \in BOOLEAN
    BY DEF IInv, TypeOK, Gather, FanucConnects, FanucConnectFails, FanucReads, FanucReadFails
  <1>4. /\ pc \in {"initialGather", "gather"}
        /\ pc' = IF pc = "gather" THEN "send" ELSE "initialSend"
    BY DEF Gather
  <1>5. TypeOK'
    BY <1>1, <1>2, <1>3, <1>4 DEF IInv, TypeOK, Later
  <1>6. Owed'
    BY <1>1, <1>2, <1>4 DEF IInv, Owed, Later, Loading
  <1> QED
    BY <1>2, <1>4, <1>5, <1>6 DEF IInv, PassDone

LEMMA StutterIInv == IInv /\ UNCHANGED vars => IInv'
  BY DEF IInv, TypeOK, Owed, PassDone, vars

LEMMA Inductive == Spec => []IInv
  <1>1. IInv /\ [Next]_vars => IInv'
    BY EnvironmentIInv, AcceptIInv, NobodyToAcceptIInv, ReadIInv, InitialSendIInv,
       SendChangedIInv, GatherIInv, StutterIInv DEF Next, Loop
  <1> QED
    BY InitIInv, <1>1, PTL DEF Spec

-----------------------------------------------------------------------------

\* Types: among others, that the list never holds more than MaxClients agents
\* and that a closed socket is in no list (server.cpp).
THEOREM Typing == Spec => []TypeOK
  <1>1. IInv => TypeOK
    BY DEF IInv
  <1> QED
    BY Inductive, <1>1, PTL

\* At the end of every pass every agent was sent the present value of every
\* datum last, or nothing of a datum without a value (adapter.cpp, startServer).
THEOREM ViewsAreFresh == Spec => []NoStaleView
  <1>1. IInv => NoStaleView
    BY DEF IInv, Owed, PassDone, NoStaleView, Loading
  <1> QED
    BY Inductive, <1>1, PTL

-----------------------------------------------------------------------------
(***************************************************************************)
(* CncSim, for any programs, products and number of parts: types, that an  *)
(* emergency stop never reads as machining, that a stopped machine stands  *)
(* still, that the product follows the count, that a part is only counted  *)
(* after every line of its program, and that a takeover ends production.   *)
(***************************************************************************)

\* A machine whose line and product its program has.
WellFormed(g) ==
    /\ g \in Machine
    /\ g.line \in 0..LastLine[g.prog]
    /\ g.product < NProducts[g.prog]

\* What the machine never changes by itself.
SameSettings(g, h) ==
    /\ h.auto = g.auto /\ h.estop = g.estop /\ h.mode = g.mode
    /\ h.prog = g.prog /\ h.fed = g.fed

SameCount(g, h) == h.part = g.part /\ h.product = g.product

\* A program that may go on without a restart has gone through every line before
\* its present one. In an emergency stop, ready, or in an mdi move it may not.
LinesPassed ==
    ~m.estop /\ ~m.mdi /\ m.exec # "READY" => passed = 0..(m.line - 1)

\* After a takeover the cycle is off, and the part in work ends in READY.
TakenOverOnce ==
    taken => ~m.auto /\ made <= 1 /\ (made = 1 => m.exec = "READY")

SimInv ==
    /\ SimTypeOK
    /\ EstopIsNeverMachining
    /\ ProductFollowsCount
    /\ LinesPassed
    /\ TakenOverOnce

-----------------------------------------------------------------------------
(* The operators of a tick and of an answer. *)

LEMMA ProductType ==
    ASSUME NEW g \in Machine
    PROVE  ProductOf(g) \in 0..(NProducts[g.prog] - 1)
  <1>1. /\ NProducts[g.prog] \in Nat \ {0} /\ SwitchParts \in Nat \ {0}
        /\ g.part \in Nat
    BY CncSimAssumption DEF Machine
  <1>2. CASE g.part = 0
    BY <1>1, <1>2 DEF ProductOf
  <1>3. CASE g.part # 0
    <2>1. (g.part - 1) \div SwitchParts \in Nat
      BY <1>1, <1>3
    <2>2. \A a \in Nat, b \in Nat \ {0} : a % b \in 0..(b - 1)
      OBVIOUS
    <2>3. QED
      BY <1>1, <1>3, <2>1, <2>2 DEF ProductOf
  <1>4. QED
    BY <1>2, <1>3

\* An answer corrects a product the program does not have, and nothing else.
LEMMA NormalisedType ==
    ASSUME NEW g \in Machine, g.line \in 0..LastLine[g.prog]
    PROVE  /\ WellFormed(Normalised(g))
           /\ \A f \in {"auto", "estop", "exec", "mode", "prog", "line", "way", "home", "fed", "jog", "mdi", "part"} :
                 Normalised(g)[f] = g[f]
           /\ Normalised(g).product \in {g.product, 0}
           /\ g.product < NProducts[g.prog] => Normalised(g) = g
  BY CncSimAssumption DEF Normalised, WellFormed, Machine

\* A line the program has is entered, with a way or without.
LEMMA EnterBlockIs ==
    ASSUME NEW g \in Machine, NEW i, i \in 0..LastLine[g.prog]
    PROVE  EnterBlock(g, i) = [g EXCEPT !.line = i, !.way = HasWay(g, i)] /\ HasWay(g, i) \in BOOLEAN
  <1>1. HasWay(g, i) \in BOOLEAN
    BY Zenon DEF HasWay
  <1>2. QED
    BY <1>1 DEF EnterBlock

\* The cycle touches nothing but the execution state, the line and the position.
LEMMA AutoCycleKeeps ==
    ASSUME NEW g, WellFormed(g), NEW due \in BOOLEAN,
           NEW h, h = AutoCycle(g, due)
    PROVE  /\ WellFormed(h)
           /\ SameSettings(g, h) /\ SameCount(g, h) /\ h.jog = g.jog /\ h.mdi = g.mdi
           /\ \/ h = g
              \/ /\ g.auto /\ ~g.estop
                 /\ \/ g.exec = "READY" /\ h.exec = "ACTIVE" /\ h.line = 0
                    \/ g.exec = "ACTIVE" /\ h.exec = "INTERRUPTED" /\ h.line = g.line
                    \/ g.exec = "INTERRUPTED" /\ h.exec = "ACTIVE" /\ h.line = g.line
                    \/ g.exec = "STOPPED" /\ h.exec = "READY" /\ h.line = 0
  <1>1. g \in Machine /\ LastLine[g.prog] \in Nat
    BY CncSimAssumption DEF WellFormed, SameSettings, SameCount, Machine
  <1>2. CASE ~g.auto \/ g.estop \/ ~due
    <2>1. h = g
      BY <1>2, <1>1 DEF AutoCycle, Machine
    <2>2. QED
      BY <2>1 DEF SameSettings, SameCount
  <1>3. CASE g.auto /\ ~g.estop /\ due
    <2>1. CASE g.exec = "READY"
      <3> DEFINE k == [g EXCEPT !.exec = "ACTIVE"]
                 w == HasWay(k, 0)
      <3>0. k \in Machine /\ k.prog = g.prog /\ 0 \in 0..LastLine[k.prog]
        BY <1>1 DEF Machine, Exec
      <3>1. h = [k EXCEPT !.line = 0, !.way = w] /\ w \in BOOLEAN
        <4>1. h = EnterBlock(k, 0)
          BY <1>3, <2>1 DEF AutoCycle
        <4>2. QED
          BY <3>0, <4>1, EnterBlockIs
      <3> HIDE DEF w
      <3>2. h \in Machine
        <4>1. [k EXCEPT !.line = 0, !.way = w] \in Machine
          BY <3>0, <3>1 DEF Machine
        <4>2. QED
          BY <4>1, <3>1
      <3>3. h.exec = "ACTIVE" /\ h.line = 0
        BY <1>1, <3>1 DEF Machine
      <3>4. SameSettings(g, h) /\ SameCount(g, h) /\ h.jog = g.jog /\ h.mdi = g.mdi
        BY <1>1, <3>1 DEF Machine, SameSettings, SameCount
      <3>5. WellFormed(h)
        BY <1>1, <3>2, <3>3, <3>4 DEF WellFormed, SameSettings, SameCount
      <3>6. QED
        BY <1>1, <1>3, <2>1, <3>3, <3>4, <3>5
    <2>2. CASE g.exec = "ACTIVE"
      <3>1. h = [g EXCEPT !.exec = "INTERRUPTED"]
        BY <1>1, <1>3, <2>2 DEF AutoCycle, Machine
      <3>2. QED
        BY <1>1, <1>3, <2>2, <3>1 DEF WellFormed, SameSettings, SameCount, Machine, Exec
    <2>3. CASE g.exec = "INTERRUPTED"
      <3>1. h = [g EXCEPT !.exec = "ACTIVE"]
        BY <1>1, <1>3, <2>3 DEF AutoCycle, Machine
      <3>2. QED
        BY <1>1, <1>3, <2>3, <3>1 DEF WellFormed, SameSettings, SameCount, Machine, Exec
    <2>4. CASE g.exec = "STOPPED"
      <3>1. h = [g EXCEPT !.exec = "READY", !.line = 0, !.home = TRUE]
        BY <1>1, <1>3, <2>4 DEF AutoCycle, Machine
      <3>2. h \in Machine
        <4>1. [g EXCEPT !.exec = "READY", !.line = 0, !.home = TRUE] \in Machine
          BY <1>1 DEF Machine, Exec
        <4>2. QED
          BY <4>1, <3>1
      <3>3. h.exec = "READY" /\ h.line = 0
        BY <1>1, <3>1 DEF Machine
      <3>4. SameSettings(g, h) /\ SameCount(g, h) /\ h.jog = g.jog /\ h.mdi = g.mdi
        BY <1>1, <3>1 DEF Machine, SameSettings, SameCount
      <3>5. WellFormed(h)
        BY <1>1, <3>2, <3>3, <3>4 DEF WellFormed, SameSettings, SameCount
      <3>6. QED
        BY <1>1, <1>3, <2>4, <3>3, <3>4, <3>5
    <2>5. QED
      BY <1>1, <2>1, <2>2, <2>3, <2>4 DEF Machine, Exec
  <1>4. QED
    BY <1>1, <1>2, <1>3 DEF Machine

\* The end of a program: one part more, its product, and ready at the first line.
LEMMA EndOfProgramType ==
    ASSUME NEW g, WellFormed(g), g.part < MaxParts
    PROVE  LET h == EndOfProgram(g) IN
           /\ WellFormed(h)
           /\ SameSettings(g, h) /\ h.jog = g.jog /\ h.mdi = g.mdi
           /\ h.exec = "READY" /\ h.line = 0 /\ h.part = g.part + 1
           /\ h.product = ProductOf(h)
  <1> DEFINE counted == [g EXCEPT !.part = @ + 1]
             h       == [counted EXCEPT !.product = ProductOf(counted),
                                        !.exec = "READY", !.line = 0, !.home = TRUE]
  <1>1. g \in Machine /\ LastLine[g.prog] \in Nat
    BY CncSimAssumption DEF WellFormed, SameSettings, SameCount, Machine
  <1>2. counted \in Machine /\ counted.part = g.part + 1 /\ counted.prog = g.prog
    BY <1>1, CncSimAssumption DEF WellFormed, SameSettings, SameCount, Machine
  <1>3. /\ ProductOf(counted) \in 0..(NProducts[g.prog] - 1) /\ NProducts[g.prog] \in Nat
        /\ ProductOf(counted) \in Nat
    BY <1>1, <1>2, ProductType, CncSimAssumption DEF Machine
  <1> HIDE DEF counted
  <1>4. /\ h \in Machine /\ h.line = 0 /\ h.exec = "READY" /\ h.part = counted.part
        /\ h.product = ProductOf(counted) /\ h.prog = counted.prog
    BY <1>2, <1>3 DEF Machine, Exec
  <1>5. ProductOf(h) = ProductOf(counted)
    BY <1>4 DEF ProductOf
  <1>6. SameSettings(g, h) /\ h.jog = g.jog /\ h.mdi = g.mdi
    BY <1>1 DEF counted, Machine, SameSettings
  <1>7. WellFormed(h)
    BY <1>1, <1>2, <1>3, <1>4 DEF WellFormed
  <1>8. h = EndOfProgram(g)
    BY DEF EndOfProgram, counted
  <1>9. QED
    BY <1>2, <1>4, <1>5, <1>6, <1>7, <1>8

\* A step of the machine in the middle of a program, of an mdi move or of a jog
\* counts nothing, and a line is only left for the next one.
LEMMA SimStepKeeps ==
    ASSUME NEW g, WellFormed(g), ~AtEnd(g), NEW at \in BOOLEAN, NEW done \in BOOLEAN,
           NEW h, h = SimStep(g, at, done)
    PROVE  /\ WellFormed(h)
           /\ SameSettings(g, h) /\ SameCount(g, h)
           /\ \/ h.exec = g.exec /\ h.mdi = g.mdi /\ h.line = g.line
                 /\ ~(InBlock(g) /\ (done \/ ~g.way))
              \/ g.mdi /\ Runs(g) /\ h.exec = "READY" /\ h.line = g.line
              \/ /\ InBlock(g) /\ (done \/ ~g.way)
                 /\ h.exec = g.exec /\ h.mdi = g.mdi /\ h.line = g.line + 1
  <1>1. g \in Machine /\ LastLine[g.prog] \in Nat /\ g.line \in 0..LastLine[g.prog]
    BY CncSimAssumption DEF WellFormed, SameSettings, SameCount, Machine
  <1>2. CASE Jogs(g)
    <2>1. h = [g EXCEPT !.home = at, !.jog = ~done]
      BY <1>2 DEF SimStep, Jogs, AtEnd, InBlock
    <2>2. ~InBlock(g)
      BY <1>2 DEF Jogs, InBlock
    <2>3. QED
      BY <1>1, <2>1, <2>2 DEF WellFormed, SameSettings, SameCount, Machine
  <1>3. CASE ~Jogs(g) /\ ~Runs(g)
    <2>1. h = g /\ ~InBlock(g)
      BY <1>3 DEF SimStep, AtEnd, InBlock
    <2>2. QED
      BY <2>1 DEF SameSettings, SameCount
  <1>4. CASE Runs(g) /\ g.mdi
    <2>1. h = IF done THEN [g EXCEPT !.home = at, !.mdi = FALSE, !.exec = "READY"]
                      ELSE [g EXCEPT !.home = at]
      BY <1>4 DEF SimStep, Jogs, AtEnd, InBlock
    <2>2. ~InBlock(g)
      BY <1>4 DEF InBlock
    <2>3. CASE done
      <3>1. h = [g EXCEPT !.home = at, !.mdi = FALSE, !.exec = "READY"]
        BY <2>1, <2>3
      <3>2. h \in Machine /\ h.exec = "READY" /\ h.line = g.line /\ h.prog = g.prog /\ h.product = g.product
        BY <1>1, <3>1 DEF Machine, Exec
      <3>3. SameSettings(g, h) /\ SameCount(g, h)
        BY <1>1, <3>1 DEF SameSettings, SameCount, Machine
      <3>4. QED
        BY <1>4, <3>2, <3>3 DEF WellFormed
    <2>4. CASE ~done
      BY <1>1, <2>1, <2>2, <2>4 DEF WellFormed, SameSettings, SameCount, Machine
    <2>5. QED
      BY <2>3, <2>4
  <1>5. CASE InBlock(g)
    <2>1. h = IF ~g.way THEN EnterBlock(g, g.line + 1)
              ELSE IF done THEN EnterBlock([g EXCEPT !.home = at], g.line + 1)
              ELSE [g EXCEPT !.home = at]
      BY <1>5 DEF SimStep, Jogs, AtEnd, InBlock, Runs
    <2>2. g.line + 1 \in 0..LastLine[g.prog]
      BY <1>1, <1>5 DEF InBlock
    <2>3. CASE ~g.way
      <3> DEFINE w == HasWay(g, g.line + 1)
      <3>1. h = [g EXCEPT !.line = g.line + 1, !.way = w] /\ w \in BOOLEAN
        BY <1>1, <2>1, <2>2, <2>3, EnterBlockIs
      <3> HIDE DEF w
      <3>2. h \in Machine
        <4>1. g.line + 1 \in Nat
          BY <1>1
        <4>2. [g EXCEPT !.line = g.line + 1, !.way = w] \in Machine
          BY <1>1, <3>1, <4>1 DEF Machine
        <4>3. QED
          BY <4>2, <3>1
      <3>3. h.line = g.line + 1
        BY <1>1, <3>1 DEF Machine
      <3>4. SameSettings(g, h) /\ SameCount(g, h) /\ h.mdi = g.mdi /\ h.exec = g.exec
        BY <1>1, <3>1 DEF Machine, SameSettings, SameCount
      <3>5. WellFormed(h)
        BY <1>1, <2>2, <3>2, <3>3, <3>4 DEF WellFormed, SameSettings, SameCount
      <3>6. QED
        BY <1>1, <1>5, <2>2, <2>3, <3>3, <3>4, <3>5
    <2>4. CASE g.way /\ done
      <3> DEFINE k == [g EXCEPT !.home = at]
                 w == HasWay(k, g.line + 1)
      <3>0. k \in Machine /\ k.prog = g.prog
        BY <1>1 DEF Machine
      <3>1. h = [k EXCEPT !.line = g.line + 1, !.way = w] /\ w \in BOOLEAN
        BY <2>1, <2>2, <2>4, <3>0, EnterBlockIs
      <3> HIDE DEF w
      <3>2. h \in Machine
        <4>1. g.line + 1 \in Nat
          BY <1>1
        <4>2. [k EXCEPT !.line = g.line + 1, !.way = w] \in Machine
          BY <3>0, <3>1, <4>1 DEF Machine
        <4>3. QED
          BY <4>2, <3>1
      <3>3. h.line = g.line + 1
        BY <1>1, <3>1 DEF Machine
      <3>4. SameSettings(g, h) /\ SameCount(g, h) /\ h.mdi = g.mdi /\ h.exec = g.exec
        BY <1>1, <3>1 DEF Machine, SameSettings, SameCount
      <3>5. WellFormed(h)
        BY <1>1, <2>2, <3>2, <3>3, <3>4 DEF WellFormed, SameSettings, SameCount
      <3>6. QED
        BY <1>1, <1>5, <2>2, <2>4, <3>3, <3>4, <3>5
    <2>5. CASE g.way /\ ~done
      <3>1. h = [g EXCEPT !.home = at]
        BY <2>1, <2>5
      <3>2. QED
        BY <1>1, <2>5, <3>1 DEF WellFormed, SameSettings, SameCount, Machine
    <2>6. QED
      BY <2>3, <2>4, <2>5
  <1>6. QED
    BY <1>2, <1>3, <1>4, <1>5 DEF AtEnd, InBlock

-----------------------------------------------------------------------------
(* A tick. *)

\* What the cycle leaves has gone through its lines, too: it only starts a
\* program at its first line, and only pauses or resumes one in its middle.
LEMMA CycleLines ==
    ASSUME SimInv, NEW due \in BOOLEAN, NEW g, g = AutoCycle(m, due),
           NEW P, P = IF m.exec = "READY" /\ g.exec = "ACTIVE" THEN {} ELSE passed
    PROVE  ~g.estop /\ ~g.mdi /\ g.exec # "READY" => P = 0..(g.line - 1)
  <1>1. WellFormed(m)
    BY DEF SimInv, SimTypeOK, WellFormed
  <1>2. /\ SameSettings(m, g) /\ g.mdi = m.mdi
        /\ \/ g = m
           \/ m.exec = "READY" /\ g.exec = "ACTIVE" /\ g.line = 0
           \/ m.exec = "ACTIVE" /\ g.exec = "INTERRUPTED" /\ g.line = m.line
           \/ m.exec = "INTERRUPTED" /\ g.exec = "ACTIVE" /\ g.line = m.line
           \/ m.exec = "STOPPED" /\ g.exec = "READY" /\ g.line = 0
    BY <1>1, AutoCycleKeeps
  <1>3. 0..(0 - 1) = {}
    OBVIOUS
  <1>4. QED
    BY <1>2, <1>3 DEF SimInv, LinesPassed, SameSettings

\* The tick that ends a program.
LEMMA EndStep ==
    ASSUME SimInv, NEW due \in BOOLEAN, NEW at \in BOOLEAN, NEW done \in BOOLEAN,
           Tick(due, at, done), AtEnd(AutoCycle(m, due))
    PROVE  SimInv' /\ passed' = 0..(LastLine[m.prog] - 1)
  <1> DEFINE g == AutoCycle(m, due)
             h == EndOfProgram(g)
             P == IF m.exec = "READY" /\ g.exec = "ACTIVE" THEN {} ELSE passed
  <1>1. WellFormed(m) /\ m.part \in Nat
    BY CncSimAssumption DEF SimInv, SimTypeOK, WellFormed, Machine
  <1>2. /\ WellFormed(g) /\ SameSettings(m, g) /\ g.part = m.part
        /\ g = m \/ m.auto
    BY <1>1, AutoCycleKeeps DEF SameCount
  <1>3. /\ g.part < MaxParts /\ m' = Normalised(SimStep(g, at, done))
        /\ passed' = P \cup (IF InBlock(g) /\ (done \/ ~g.way) THEN {g.line} ELSE {})
        /\ made' = (IF made < 2 THEN made + 1 ELSE made)
        /\ chosen' = FALSE /\ taken' = taken
    BY DEF Tick
  <1>4. /\ g.exec = "ACTIVE" /\ ~g.estop /\ ~g.mdi /\ g.line = LastLine[g.prog] /\ ~InBlock(g)
        /\ SimStep(g, at, done) = h
    BY DEF AtEnd, Runs, InBlock, SimStep, Jogs
  <1>5. P = 0..(g.line - 1)
    BY <1>4, CycleLines
  <1> HIDE DEF g, P
  <1>6. /\ WellFormed(h) /\ SameSettings(g, h)
        /\ h.exec = "READY" /\ h.product = ProductOf(h)
    BY <1>2, <1>3, EndOfProgramType
  <1>7. m' = h
    BY <1>3, <1>4, <1>6 DEF Normalised, WellFormed
  <1> HIDE DEF h
  <1>8. passed' = 0..(LastLine[m.prog] - 1) /\ LastLine[m.prog] \in Nat
    BY <1>1, <1>2, <1>3, <1>4, <1>5, CncSimAssumption DEF SameSettings, WellFormed, Machine
  <1>9. SimTypeOK'
    <2>1. made \in 0..2 /\ taken \in BOOLEAN
      BY DEF SimInv, SimTypeOK
    <2>2. made' \in 0..2
      <3>1. made < 2 => made + 1 \in 0..2
        BY <2>1
      <3>2. QED
        BY <1>3, <2>1, <3>1
    <2>5. taken' \in BOOLEAN /\ chosen' \in BOOLEAN
      BY <1>3, <2>1
    <2>3. passed' \subseteq Nat
      BY <1>8
    <2>4. QED
      BY <1>6, <1>7, <2>2, <2>3, <2>5 DEF SimTypeOK, WellFormed
  <1>10. EstopIsNeverMachining' /\ ProductFollowsCount' /\ LinesPassed'
    BY <1>6, <1>7 DEF EstopIsNeverMachining, ProductFollowsCount, LinesPassed, ProductOf
  <1>11. TakenOverOnce'
    <2>1. taken => ~m.auto /\ made <= 1 /\ (made = 1 => m.exec = "READY") /\ made \in 0..2
      BY DEF SimInv, TakenOverOnce, SimTypeOK
    <2>2. taken => g = m /\ made = 0
      BY <1>2, <1>4, <2>1
    <2>3. QED
      BY <1>2, <1>3, <1>6, <1>7, <2>1, <2>2 DEF TakenOverOnce, SameSettings
  <1>12. QED
    BY <1>8, <1>9, <1>10, <1>11 DEF SimInv

\* Every other tick.
LEMMA MoveStep ==
    ASSUME SimInv, NEW due \in BOOLEAN, NEW at \in BOOLEAN, NEW done \in BOOLEAN,
           Tick(due, at, done), ~AtEnd(AutoCycle(m, due))
    PROVE  SimInv' /\ m'.part = m.part
  <1> DEFINE g == AutoCycle(m, due)
             h == SimStep(g, at, done)
             P == IF m.exec = "READY" /\ g.exec = "ACTIVE" THEN {} ELSE passed
             way == InBlock(g) /\ (done \/ ~g.way)
  <1>1. WellFormed(m)
    BY DEF SimInv, SimTypeOK, WellFormed
  <1>2. /\ WellFormed(g) /\ SameSettings(m, g) /\ SameCount(m, g) /\ g.mdi = m.mdi
        /\ \/ g = m
           \/ /\ m.auto /\ ~m.estop
              /\ g.exec = "ACTIVE" => m.exec \in {"READY", "INTERRUPTED"}
    BY <1>1, AutoCycleKeeps
  <1>3. /\ m' = Normalised(h)
        /\ passed' = P \cup (IF way THEN {g.line} ELSE {})
        /\ made' = made /\ chosen' = chosen /\ taken' = taken
    BY DEF Tick, SimInv, SimTypeOK
  <1>4. ~g.estop /\ ~g.mdi /\ g.exec # "READY" => P = 0..(g.line - 1)
    BY CycleLines
  <1>5. ~AtEnd(g)
    OBVIOUS
  <1>6. P \subseteq Nat
    BY DEF SimInv, SimTypeOK
  <1>7. way => ~g.estop /\ ~g.mdi /\ g.exec = "ACTIVE"
    BY DEF InBlock, Runs
  <1>8. g.mdi /\ Runs(g) => ~g.estop
    BY DEF Runs
  <1> HIDE DEF g, P
  <1>9. /\ WellFormed(h) /\ SameSettings(g, h) /\ SameCount(g, h)
        /\ \/ h.exec = g.exec /\ h.mdi = g.mdi /\ h.line = g.line /\ ~way
           \/ g.mdi /\ Runs(g) /\ h.exec = "READY" /\ h.line = g.line
           \/ way /\ h.exec = g.exec /\ h.mdi = g.mdi /\ h.line = g.line + 1
    BY <1>2, <1>5, SimStepKeeps
  <1>10. m' = h
    BY <1>3, <1>9 DEF Normalised, WellFormed
  <1> HIDE DEF h, way
  <1>11. g.line \in Nat /\ (g.line + 1) - 1 = g.line
    BY <1>2 DEF WellFormed, Machine
  <1>12. SimTypeOK'
    BY <1>3, <1>6, <1>9, <1>10, <1>11 DEF SimInv, SimTypeOK, WellFormed
  <1>13. EstopIsNeverMachining'
    <2>1. m.estop => g = m
      BY <1>2
    <2>2. m.estop => ~(g.exec = "ACTIVE" /\ g.mode = "AUTOMATIC")
      BY <2>1 DEF SimInv, EstopIsNeverMachining
    <2>3. QED
      BY <1>2, <1>9, <1>10, <2>2 DEF EstopIsNeverMachining, SameSettings
  <1>14. ProductFollowsCount'
    <2>1. ProductOf(h) = ProductOf(m)
      BY <1>2, <1>9 DEF ProductOf, SameSettings, SameCount
    <2>2. QED
      BY <1>2, <1>3, <1>9, <1>10, <2>1 DEF SimInv, ProductFollowsCount, SameCount
  <1>15. LinesPassed'
    <2>1. SUFFICES ASSUME ~h.estop, ~h.mdi, h.exec # "READY"
                   PROVE  passed' = 0..(h.line - 1)
      BY <1>10 DEF LinesPassed
    <2>2. ~g.estop
      BY <1>9, <2>1 DEF SameSettings
    <2>3. CASE way
      <3>1. h.line = g.line + 1 /\ P = 0..(g.line - 1)
        BY <1>4, <1>7, <1>9, <2>1, <2>3
      <3>2. \A n \in Nat : (0..(n - 1)) \cup {n} = 0..n
        OBVIOUS
      <3>3. QED
        BY <1>3, <1>11, <2>3, <3>1, <3>2
    <2>4. CASE ~way
      <3>1. h.line = g.line /\ P = 0..(g.line - 1)
        BY <1>4, <1>9, <2>1, <2>2, <2>4
      <3>2. QED
        BY <1>3, <2>4, <3>1
    <2>5. QED
      BY <2>3, <2>4
  <1>16. TakenOverOnce'
    <2>1. taken => g = m
      BY <1>2 DEF SimInv, TakenOverOnce
    <2>2. taken => ~m.auto /\ made <= 1 /\ (made = 1 => m.exec = "READY")
      BY DEF SimInv, TakenOverOnce
    <2>3. taken /\ made = 1 => h.exec = "READY"
      BY <1>9, <2>1, <2>2
    <2>4. QED
      BY <1>2, <1>3, <1>9, <1>10, <2>2, <2>3 DEF TakenOverOnce, SameSettings
  <1>17. m'.part = m.part
    BY <1>2, <1>9, <1>10 DEF SameCount
  <1>18. QED
    BY <1>12, <1>13, <1>14, <1>15, <1>16, <1>17 DEF SimInv

-----------------------------------------------------------------------------
(* The commands. *)

\* A command other than `auto` that leaves g: what g must satisfy.
LEMMA ObeyStep ==
    ASSUME NEW g \in Machine, Obey(g), ~g.auto,
           g.line \in 0..LastLine[g.prog],
           g.estop => ~(g.exec = "ACTIVE" /\ g.mode = "AUTOMATIC"),
           ~chosen' => g.product = ProductOf(g),
           chosen' \in BOOLEAN, passed' \subseteq Nat,
           ~g.estop /\ ~g.mdi /\ g.exec # "READY" => passed' = 0..(g.line - 1)
    PROVE  SimInv'
  <1> DEFINE h == Normalised(g)
  <1>1. m' = h /\ made' = 0 /\ taken' = TRUE
    BY DEF Obey, Answer
  <1>2. /\ WellFormed(h)
        /\ h.auto = g.auto /\ h.estop = g.estop /\ h.exec = g.exec /\ h.mode = g.mode
        /\ h.mdi = g.mdi /\ h.line = g.line
        /\ g.product < NProducts[g.prog] => h = g
    BY NormalisedType
  <1>3. NProducts[g.prog] \in Nat /\ ProductOf(g) \in 0..(NProducts[g.prog] - 1)
    BY ProductType, CncSimAssumption DEF Machine
  <1>4. ~chosen' => h = g
    BY <1>2, <1>3
  <1> HIDE DEF h
  <1>5. SimTypeOK'
    BY <1>1, <1>2 DEF SimTypeOK, WellFormed
  <1>6. EstopIsNeverMachining' /\ ProductFollowsCount' /\ LinesPassed' /\ TakenOverOnce'
    BY <1>1, <1>2, <1>4 DEF EstopIsNeverMachining, ProductFollowsCount, LinesPassed, TakenOverOnce
  <1>7. QED
    BY <1>5, <1>6 DEF SimInv

\* What a command finds, as the conditions of ObeyStep want it.
LEMMA Found ==
    ASSUME SimInv
    PROVE  /\ m \in Machine /\ m.line \in 0..LastLine[m.prog] /\ LastLine[m.prog] \in Nat
           /\ TakenOver(m) = [m EXCEPT !.auto = FALSE]
           /\ m.estop => ~(m.exec = "ACTIVE" /\ m.mode = "AUTOMATIC")
           /\ ~chosen => m.product = ProductOf(m)
           /\ chosen \in BOOLEAN /\ passed \subseteq Nat
           /\ ~m.estop /\ ~m.mdi /\ m.exec # "READY" => passed = 0..(m.line - 1)
  BY CncSimAssumption DEF SimInv, SimTypeOK, EstopIsNeverMachining, ProductFollowsCount, LinesPassed,
     TakenOver, Machine

\* A command that leaves the program, the line and the count alone, and brings
\* no program to run that did not.
LEMMA HandleStep ==
    ASSUME SimInv, NEW g \in Machine, Obey(g), UNCHANGED <<passed, chosen>>,
           ~g.auto, g.prog = m.prog, g.line = m.line, g.part = m.part, g.product = m.product,
           g.estop => ~(g.exec = "ACTIVE" /\ g.mode = "AUTOMATIC"),
           ~g.estop /\ ~g.mdi /\ g.exec # "READY" => ~m.estop /\ ~m.mdi /\ m.exec # "READY"
    PROVE  SimInv'
  <1>1. ProductOf(g) = ProductOf(m)
    BY DEF ProductOf
  <1>2. /\ chosen' \in BOOLEAN /\ passed' \subseteq Nat
        /\ ~chosen' => g.product = ProductOf(g)
        /\ g.line \in 0..LastLine[g.prog]
        /\ ~g.estop /\ ~g.mdi /\ g.exec # "READY" => passed' = 0..(g.line - 1)
    BY <1>1, Found
  <1>3. QED
    BY <1>2, ObeyStep

\* Commands to the machine in the state it is in.
LEMMA HandleSteps ==
    ASSUME SimInv,
           \/ Refused \/ Stop \/ Hold \/ Resume \/ Estop \/ EstopRelease \/ Jog \/ Mdi
           \/ \E on \in BOOLEAN : SetFeed(on)
           \/ \E at, way \in BOOLEAN : SetPos(at, way)
           \/ \E mode \in Mode : SetMode(mode)
    PROVE  SimInv'
  <1>1. /\ m \in Machine /\ TakenOver(m) = [m EXCEPT !.auto = FALSE]
        /\ m.estop => ~(m.exec = "ACTIVE" /\ m.mode = "AUTOMATIC")
    BY Found
  <1>2. CASE Refused
    <2> DEFINE g == TakenOver(m)
    <2>1. /\ g \in Machine /\ g.auto = FALSE /\ g.estop = m.estop /\ g.exec = m.exec
          /\ g.mode = m.mode /\ g.prog = m.prog /\ g.line = m.line /\ g.mdi = m.mdi
          /\ g.part = m.part /\ g.product = m.product
      BY <1>1 DEF Machine
    <2>2. Obey(g) /\ UNCHANGED <<passed, chosen>>
      BY <1>2 DEF Refused
    <2> HIDE DEF g
    <2>3. QED
      BY <1>1, <2>1, <2>2, HandleStep
  <1>3. CASE Stop
    <2> DEFINE g == [TakenOver(m) EXCEPT !.exec = IF @ \in {"ACTIVE", "INTERRUPTED"}
                                                    THEN "STOPPED" ELSE @]
    <2>1. /\ g \in Machine /\ g.auto = FALSE /\ g.estop = m.estop
          /\ g.exec = (IF m.exec \in {"ACTIVE", "INTERRUPTED"} THEN "STOPPED" ELSE m.exec)
          /\ g.mode = m.mode /\ g.prog = m.prog /\ g.line = m.line /\ g.mdi = m.mdi
          /\ g.part = m.part /\ g.product = m.product
      BY <1>1 DEF Machine, Exec
    <2>2. Obey(g) /\ UNCHANGED <<passed, chosen>>
      BY <1>3 DEF Stop
    <2> HIDE DEF g
    <2>3. QED
      BY <1>1, <2>1, <2>2, HandleStep
  <1>4. CASE Hold
    <2> DEFINE g == [TakenOver(m) EXCEPT !.exec = IF @ = "ACTIVE" THEN "INTERRUPTED" ELSE @]
    <2>1. /\ g \in Machine /\ g.auto = FALSE /\ g.estop = m.estop
          /\ g.exec = (IF m.exec = "ACTIVE" THEN "INTERRUPTED" ELSE m.exec)
          /\ g.mode = m.mode /\ g.prog = m.prog /\ g.line = m.line /\ g.mdi = m.mdi
          /\ g.part = m.part /\ g.product = m.product
      BY <1>1 DEF Machine, Exec
    <2>2. Obey(g) /\ UNCHANGED <<passed, chosen>>
      BY <1>4 DEF Hold
    <2> HIDE DEF g
    <2>3. QED
      BY <1>1, <2>1, <2>2, HandleStep
  <1>5. CASE Resume
    <2> DEFINE g == [TakenOver(m) EXCEPT !.exec = IF /\ @ \in {"STOPPED", "INTERRUPTED"}
                                                     /\ (m.mode = "AUTOMATIC" \/ m.mdi)
                                                    THEN "ACTIVE" ELSE @]
    <2>1. /\ g \in Machine /\ g.auto = FALSE /\ g.estop = m.estop
          /\ g.exec \in {m.exec, "ACTIVE"} /\ (m.exec = "READY" => g.exec = "READY")
          /\ g.mode = m.mode /\ g.prog = m.prog /\ g.line = m.line /\ g.mdi = m.mdi
          /\ g.part = m.part /\ g.product = m.product
      BY <1>1 DEF Machine, Exec
    <2>2. Obey(g) /\ UNCHANGED <<passed, chosen>> /\ ~m.estop
      BY <1>5 DEF Resume
    <2> HIDE DEF g
    <2>3. QED
      BY <1>1, <2>1, <2>2, HandleStep
  <1>6. CASE Estop
    <2> DEFINE g == [TakenOver(m) EXCEPT !.estop = TRUE, !.exec = "STOPPED"]
    <2>1. /\ g \in Machine /\ g.auto = FALSE /\ g.estop = TRUE /\ g.exec = "STOPPED"
          /\ g.prog = m.prog /\ g.line = m.line /\ g.part = m.part /\ g.product = m.product
      BY <1>1 DEF Machine, Exec
    <2>2. Obey(g) /\ UNCHANGED <<passed, chosen>>
      BY <1>6 DEF Estop
    <2> HIDE DEF g
    <2>3. QED
      BY <2>1, <2>2, HandleStep
  <1>7. CASE EstopRelease
    <2> DEFINE g == [TakenOver(m) EXCEPT !.estop = FALSE, !.exec = "READY"]
    <2>1. /\ g \in Machine /\ g.auto = FALSE /\ g.exec = "READY"
          /\ g.prog = m.prog /\ g.line = m.line /\ g.part = m.part /\ g.product = m.product
      BY <1>1 DEF Machine, Exec
    <2>2. Obey(g) /\ UNCHANGED <<passed, chosen>>
      BY <1>7 DEF EstopRelease
    <2> HIDE DEF g
    <2>3. QED
      BY <2>1, <2>2, HandleStep
  <1>8. CASE Jog
    <2> DEFINE g == [TakenOver(m) EXCEPT !.jog = TRUE, !.mode = "MANUAL", !.exec = "READY"]
    <2>1. /\ g \in Machine /\ g.auto = FALSE /\ g.exec = "READY"
          /\ g.prog = m.prog /\ g.line = m.line /\ g.part = m.part /\ g.product = m.product
      BY <1>1 DEF Machine, Exec, Mode
    <2>2. Obey(g) /\ UNCHANGED <<passed, chosen>>
      BY <1>8 DEF Jog
    <2> HIDE DEF g
    <2>3. QED
      BY <2>1, <2>2, HandleStep
  <1>9. CASE Mdi
    <2> DEFINE g == [TakenOver(m) EXCEPT !.mdi = TRUE, !.mode = "MDI", !.exec = "ACTIVE"]
    <2>1. /\ g \in Machine /\ g.auto = FALSE /\ g.mdi = TRUE /\ g.mode = "MDI"
          /\ g.prog = m.prog /\ g.line = m.line /\ g.part = m.part /\ g.product = m.product
      BY <1>1 DEF Machine, Exec, Mode
    <2>2. Obey(g) /\ UNCHANGED <<passed, chosen>>
      BY <1>9 DEF Mdi
    <2> HIDE DEF g
    <2>3. QED
      BY <2>1, <2>2, HandleStep
  <1>10. ASSUME NEW on \in BOOLEAN, SetFeed(on)
         PROVE  SimInv'
    <2> DEFINE g == [TakenOver(m) EXCEPT !.fed = on]
    <2>1. /\ g \in Machine /\ g.auto = FALSE /\ g.estop = m.estop /\ g.exec = m.exec
          /\ g.mode = m.mode /\ g.prog = m.prog /\ g.line = m.line /\ g.mdi = m.mdi
          /\ g.part = m.part /\ g.product = m.product
      BY <1>1 DEF Machine
    <2>2. Obey(g) /\ UNCHANGED <<passed, chosen>>
      BY <1>10 DEF SetFeed
    <2> HIDE DEF g
    <2>3. QED
      BY <1>1, <2>1, <2>2, HandleStep
  <1>11. ASSUME NEW at \in BOOLEAN, NEW way \in BOOLEAN, SetPos(at, way)
         PROVE  SimInv'
    <2> DEFINE g == [TakenOver(m) EXCEPT !.home = at, !.way = way]
    <2>1. /\ g \in Machine /\ g.auto = FALSE /\ g.estop = m.estop /\ g.exec = m.exec
          /\ g.mode = m.mode /\ g.prog = m.prog /\ g.line = m.line /\ g.mdi = m.mdi
          /\ g.part = m.part /\ g.product = m.product
      BY <1>1 DEF Machine
    <2>2. Obey(g) /\ UNCHANGED <<passed, chosen>>
      BY <1>11 DEF SetPos
    <2> HIDE DEF g
    <2>3. QED
      BY <1>1, <2>1, <2>2, HandleStep
  <1>12. ASSUME NEW mode \in Mode, SetMode(mode)
         PROVE  SimInv'
    <2> DEFINE g == [TakenOver(m) EXCEPT !.mode = mode, !.exec = "READY"]
    <2>1. /\ g \in Machine /\ g.auto = FALSE /\ g.exec = "READY"
          /\ g.prog = m.prog /\ g.line = m.line /\ g.part = m.part /\ g.product = m.product
      BY <1>1 DEF Machine, Exec
    <2>2. Obey(g) /\ UNCHANGED <<passed, chosen>>
      BY <1>12 DEF SetMode
    <2> HIDE DEF g
    <2>3. QED
      BY <2>1, <2>2, HandleStep
  <1>13. QED
    BY <1>2, <1>3, <1>4, <1>5, <1>6, <1>7, <1>8, <1>9, <1>10, <1>11, <1>12

\* The start of a program goes to its first line, with nothing gone through.
LEMMA StartStep ==
    ASSUME SimInv, Start
    PROVE  SimInv'
  <1> DEFINE k == [TakenOver(m) EXCEPT !.mode = "AUTOMATIC", !.exec = "ACTIVE",
                                        !.mdi = FALSE, !.jog = FALSE, !.home = TRUE]
             g == EnterBlock(k, 0)
  <1>1. /\ m \in Machine /\ TakenOver(m) = [m EXCEPT !.auto = FALSE]
        /\ LastLine[m.prog] \in Nat
        /\ ~chosen => m.product = ProductOf(m)
        /\ chosen \in BOOLEAN
    BY Found
  <1>2. /\ k \in Machine /\ k.auto = FALSE /\ k.estop = m.estop /\ k.prog = m.prog
        /\ k.part = m.part /\ k.product = m.product
    BY <1>1 DEF Machine, Exec, Mode
  <1>3. Obey(g) /\ ~m.estop /\ passed' = {} /\ chosen' = chosen
    BY DEF Start
  <1> HIDE DEF k
  <1> DEFINE w == HasWay(k, 0)
  <1>4. g = [k EXCEPT !.line = 0, !.way = w] /\ w \in BOOLEAN
    <2>1. k \in Machine /\ 0 \in 0..LastLine[k.prog]
      BY <1>1, <1>2
    <2>2. QED
      BY <2>1, EnterBlockIs
  <1> HIDE DEF w
  <1>5. /\ g \in Machine /\ g.auto = FALSE /\ g.estop = m.estop /\ g.line = 0
        /\ g.prog = m.prog /\ g.part = m.part /\ g.product = m.product
    <2>1. [k EXCEPT !.line = 0, !.way = w] \in Machine
      BY <1>2, <1>4 DEF Machine
    <2>2. g \in Machine
      BY <1>4, <2>1
    <2>3. QED
      BY <1>2, <1>4, <2>2 DEF Machine
  <1> HIDE DEF g
  <1>6. ProductOf(g) = ProductOf(m)
    BY <1>5 DEF ProductOf
  <1>7. 0..(0 - 1) = {} /\ 0 \in 0..LastLine[m.prog]
    BY <1>1
  <1>8. QED
    BY <1>1, <1>3, <1>5, <1>6, <1>7, ObeyStep

\* Commands that set the program or the count.
LEMMA CountSteps ==
    ASSUME SimInv,
           \/ Reset
           \/ \E p \in Programs : SetProgram(p) \/ SetProduct(NProducts[p])
           \/ \E k \in 0..MaxParts : SetPart(k)
    PROVE  SimInv'
  <1>1. /\ m \in Machine /\ TakenOver(m) = [m EXCEPT !.auto = FALSE]
        /\ m.line \in 0..LastLine[m.prog]
        /\ m.estop => ~(m.exec = "ACTIVE" /\ m.mode = "AUTOMATIC")
        /\ passed \subseteq Nat
        /\ ~m.estop /\ ~m.mdi /\ m.exec # "READY" => passed = 0..(m.line - 1)
    BY Found
  <1>2. \A p \in Programs : LastLine[p] \in Nat /\ NProducts[p] \in Nat
    BY CncSimAssumption
  <1>3. CASE Reset
    <2> DEFINE g == [TakenOver(m) EXCEPT !.exec = "READY", !.line = 0, !.way = FALSE, !.home = TRUE, !.jog = FALSE,
                                          !.mdi = FALSE, !.part = 0, !.product = 0]
    <2>1. 0 \in 0..MaxParts
      BY CncSimAssumption
    <2>2. /\ g \in Machine /\ g.auto = FALSE /\ g.exec = "READY" /\ g.line = 0
          /\ g.prog = m.prog /\ g.part = 0 /\ g.product = 0
      BY <1>1, <2>1 DEF Machine, Exec
    <2>3. Obey(g) /\ chosen' = FALSE /\ passed' = passed
      BY <1>3 DEF Reset
    <2> HIDE DEF g
    <2>4. ProductOf(g) = 0 /\ g.line \in 0..LastLine[g.prog]
      BY <1>1, <1>2, <2>2 DEF ProductOf, Machine
    <2>5. QED
      BY <1>1, <2>2, <2>3, <2>4, ObeyStep
  <1>4. ASSUME NEW p \in Programs, SetProgram(p)
        PROVE  SimInv'
    <2> DEFINE g == [TakenOver(m) EXCEPT !.prog = p, !.exec = "READY", !.line = 0, !.way = FALSE, !.home = TRUE,
                                          !.part = 0, !.product = 0]
    <2>1. 0 \in 0..MaxParts
      BY CncSimAssumption
    <2>2. /\ g \in Machine /\ g.auto = FALSE /\ g.exec = "READY" /\ g.line = 0
          /\ g.prog = p /\ g.part = 0 /\ g.product = 0
      BY <1>1, <2>1 DEF Machine, Exec
    <2>3. Obey(g) /\ chosen' = FALSE /\ passed' = passed
      BY <1>4 DEF SetProgram
    <2> HIDE DEF g
    <2>4. ProductOf(g) = 0 /\ g.line \in 0..LastLine[g.prog]
      BY <1>2, <2>2 DEF ProductOf
    <2>5. QED
      BY <1>1, <2>2, <2>3, <2>4, ObeyStep
  <1>5. ASSUME NEW p \in Programs, SetProduct(NProducts[p])
        PROVE  SimInv'
    <2> DEFINE g == [TakenOver(m) EXCEPT !.product = NProducts[p]]
    <2>1. /\ g \in Machine /\ g.auto = FALSE /\ g.estop = m.estop /\ g.exec = m.exec
          /\ g.mode = m.mode /\ g.prog = m.prog /\ g.line = m.line /\ g.mdi = m.mdi
      BY <1>1, <1>2 DEF Machine
    <2>2. Obey(g) /\ chosen' = TRUE /\ passed' = passed
      BY <1>5 DEF SetProduct
    <2> HIDE DEF g
    <2>3. QED
      BY <1>1, <2>1, <2>2, ObeyStep
  <1>6. ASSUME NEW k \in 0..MaxParts, SetPart(k)
        PROVE  SimInv'
    <2> DEFINE c == [TakenOver(m) EXCEPT !.part = k]
               g == [c EXCEPT !.product = ProductOf(c)]
    <2>1. /\ c \in Machine /\ c.auto = FALSE /\ c.estop = m.estop /\ c.exec = m.exec
          /\ c.mode = m.mode /\ c.prog = m.prog /\ c.line = m.line /\ c.mdi = m.mdi
      BY <1>1 DEF Machine
    <2>2. Obey(g) /\ chosen' = FALSE /\ passed' = passed
      BY <1>6 DEF SetPart
    <2> HIDE DEF c
    <2>3. ProductOf(c) \in Nat
      BY <1>2, <2>1, ProductType DEF Machine
    <2>4. /\ g \in Machine /\ g.auto = FALSE /\ g.estop = m.estop /\ g.exec = m.exec
          /\ g.mode = m.mode /\ g.prog = m.prog /\ g.line = m.line /\ g.mdi = m.mdi
          /\ g.part = c.part /\ g.product = ProductOf(c)
      BY <2>1, <2>3 DEF Machine
    <2> HIDE DEF g
    <2>5. ProductOf(g) = ProductOf(c)
      BY <2>1, <2>4 DEF ProductOf
    <2>6. QED
      BY <1>1, <2>2, <2>4, <2>5, ObeyStep
  <1>7. QED
    BY <1>3, <1>4, <1>5, <1>6

\* `auto on` and `auto off` do not touch what the machine is doing.
LEMMA AutoStep ==
    ASSUME SimInv, NEW on \in BOOLEAN, SetAuto(on)
    PROVE  SimInv'
  <1> DEFINE g == [m EXCEPT !.auto = on]
  <1>1. m \in Machine /\ m.line \in 0..LastLine[m.prog] /\ m.product < NProducts[m.prog]
    BY DEF SimInv, SimTypeOK
  <1>2. /\ g \in Machine /\ g.auto = on /\ g.estop = m.estop /\ g.exec = m.exec
        /\ g.mode = m.mode /\ g.prog = m.prog /\ g.line = m.line /\ g.mdi = m.mdi
        /\ g.part = m.part /\ g.product = m.product
    BY <1>1 DEF Machine
  <1>3. /\ m' = Normalised(g) /\ made' = 0 /\ taken' = ~on
        /\ passed' = passed /\ chosen' = chosen
    BY DEF SetAuto, Answer
  <1> HIDE DEF g
  <1>4. m' = g
    BY <1>1, <1>2, <1>3 DEF Normalised
  <1>5. SimTypeOK'
    BY <1>1, <1>2, <1>3, <1>4 DEF SimInv, SimTypeOK
  <1>6. EstopIsNeverMachining' /\ LinesPassed'
    BY <1>2, <1>3, <1>4 DEF SimInv, EstopIsNeverMachining, LinesPassed
  <1>7. ProductFollowsCount'
    <2>1. ProductOf(g) = ProductOf(m)
      BY <1>2 DEF ProductOf
    <2>2. QED
      BY <1>2, <1>3, <1>4, <2>1 DEF SimInv, ProductFollowsCount
  <1>8. TakenOverOnce'
    <2>1. CASE on
      <3>1. ~taken'
        BY <1>3, <2>1
      <3>2. QED
        BY <3>1 DEF TakenOverOnce
    <2>2. CASE ~on
      <3>1. ~(m'.auto)
        BY <1>2, <1>4, <2>2
      <3>2. QED
        BY <1>3, <3>1 DEF TakenOverOnce
    <2>3. QED
      BY <2>1, <2>2
  <1>9. QED
    BY <1>5, <1>6, <1>7, <1>8 DEF SimInv

-----------------------------------------------------------------------------
(* The theorems. *)

LEMMA InitSimInv == SimInit => SimInv
  <1> SUFFICES ASSUME SimInit PROVE SimInv
    OBVIOUS
  <1>1. /\ m \in Machine /\ m.line = 0 /\ m.product = 0 /\ m.part = 0 /\ m.exec = "READY"
        /\ passed = {} /\ taken = FALSE /\ made = 0 /\ chosen = FALSE
    <2>1. 0 \in Nat /\ 0 \in 0..MaxParts
      BY CncSimAssumption
    <2>2. "READY" \in Exec /\ "AUTOMATIC" \in Mode
      BY DEF Exec, Mode
    <2>3. PICK p \in Programs :
             m = [auto |-> TRUE, estop |-> FALSE, exec |-> "READY", mode |-> "AUTOMATIC",
                  prog |-> p, line |-> 0, way |-> FALSE, home |-> TRUE, fed |-> TRUE,
                  jog |-> FALSE, mdi |-> FALSE, part |-> 0, product |-> 0]
      BY DEF SimInit
    <2>4. m \in Machine
      BY <2>1, <2>2, <2>3 DEF Machine
    <2>5. QED
      BY <2>3, <2>4 DEF SimInit
  <1>2. LastLine[m.prog] \in Nat /\ NProducts[m.prog] \in Nat \ {0}
    BY <1>1, CncSimAssumption DEF Machine
  <1>3. SimTypeOK
    <2>1. 0 \in 0..LastLine[m.prog] /\ 0 < NProducts[m.prog] /\ {} \subseteq Nat
      BY <1>2
    <2>2. taken \in BOOLEAN /\ chosen \in BOOLEAN
      BY <1>1
    <2>3. m.line \in 0..LastLine[m.prog] /\ m.product < NProducts[m.prog]
      BY <1>1, <2>1
    <2>4. passed \subseteq Nat /\ made \in 0..2
      BY <1>1
    <2>5. QED
      BY <1>1, <2>2, <2>3, <2>4 DEF SimTypeOK
  <1>4. EstopIsNeverMachining /\ ProductFollowsCount /\ LinesPassed /\ TakenOverOnce
    BY <1>1 DEF EstopIsNeverMachining, ProductFollowsCount, LinesPassed, TakenOverOnce, ProductOf
  <1>5. QED
    BY <1>3, <1>4 DEF SimInv

LEMMA CommandStep ==
    ASSUME SimInv, Commands
    PROVE  SimInv'
  BY AutoStep, HandleSteps, StartStep, CountSteps DEF Commands, Alarm

LEMMA TickStep ==
    ASSUME SimInv, MainLoop
    PROVE  SimInv'
  BY EndStep, MoveStep DEF MainLoop

LEMMA NextIInv ==
    ASSUME SimInv, [SimNext]_simVars
    PROVE  SimInv'
  <1>1. CASE UNCHANGED simVars
    BY <1>1 DEF simVars, SimInv, SimTypeOK, EstopIsNeverMachining, ProductFollowsCount, LinesPassed,
       TakenOverOnce
  <1>2. QED
    BY <1>1, CommandStep, TickStep DEF SimNext

LEMMA Invariance == SimSpec => []SimInv
  <1>1. SimInv /\ [SimNext]_simVars => SimInv'
    BY NextIInv
  <1>2. QED
    BY InitSimInv, <1>1, PTL DEF SimSpec

\* The machine is one its program describes: the line is a line of the program
\* and the product is one of its products.
THEOREM SimTyping == SimSpec => []SimTypeOK
  <1>1. SimInv => SimTypeOK
    BY DEF SimInv
  <1>2. QED
    BY Invariance, <1>1, PTL

\* The statistics never count machining in an emergency stop, whatever commands
\* came in whatever order.
THEOREM EstopNeverMachines == SimSpec => []EstopIsNeverMachining
  <1>1. SimInv => EstopIsNeverMachining
    BY DEF SimInv
  <1>2. QED
    BY Invariance, <1>1, PTL

\* The product is the one of the count, unless it was set by hand.
THEOREM ProductIsOfCount == SimSpec => []ProductFollowsCount
  <1>1. SimInv => ProductFollowsCount
    BY DEF SimInv
  <1>2. QED
    BY Invariance, <1>1, PTL

\* After a takeover at most the part in work is counted: counting it leaves the
\* machine ready, and nothing but a command starts it again.
THEOREM TakeoverEnds == SimSpec => []TakeoverEndsProduction
  <1>1. SimInv => TakeoverEndsProduction
    BY DEF SimInv, SimTypeOK, TakenOverOnce, TakeoverEndsProduction
  <1>2. QED
    BY Invariance, <1>1, PTL

\* A counted part went through every line of its program.
THEOREM PartsAreMade == SimSpec => EveryPartIsMade
  <1>1. ASSUME SimInv, [SimNext]_simVars
        PROVE  [MainLoop /\ m'.part > m.part => passed' = 0..(LastLine[m.prog] - 1)]_simVars
    <2>1. SUFFICES ASSUME MainLoop, m'.part > m.part
                   PROVE  passed' = 0..(LastLine[m.prog] - 1)
      OBVIOUS
    <2>2. PICK due, at, done \in BOOLEAN : Tick(due, at, done)
      BY <2>1 DEF MainLoop
    <2>3. m.part \in Int
      BY <1>1, CncSimAssumption DEF SimInv, SimTypeOK, Machine
    <2>4. CASE AtEnd(AutoCycle(m, due))
      BY <1>1, <2>2, <2>4, EndStep
    <2>5. CASE ~AtEnd(AutoCycle(m, due))
      BY <1>1, <2>1, <2>2, <2>3, <2>5, MoveStep
    <2>6. QED
      BY <2>4, <2>5
  <1>2. QED
    BY Invariance, <1>1, PTL DEF SimSpec, EveryPartIsMade

\* In an emergency stop a tick changes nothing.
THEOREM EstopIsStill == SimSpec => EstopFreezes
  <1>1. ASSUME SimInv, [SimNext]_simVars
        PROVE  [MainLoop /\ m.estop => m' = m]_simVars
    <2>1. SUFFICES ASSUME MainLoop, m.estop
                   PROVE  m' = m
      OBVIOUS
    <2>2. PICK due, at, done \in BOOLEAN : Tick(due, at, done)
      BY <2>1 DEF MainLoop
    <2>3. AutoCycle(m, due) = m
      <3>1. WellFormed(m)
        BY <1>1 DEF SimInv, SimTypeOK, WellFormed
      <3>2. QED
        BY <2>1, <3>1, AutoCycleKeeps
    <2>4. SimStep(m, at, done) = m
      BY <2>1 DEF SimStep, Jogs, Runs, AtEnd, InBlock
    <2>5. Normalised(m) = m
      BY <1>1 DEF SimInv, SimTypeOK, Normalised
    <2>6. QED
      BY <2>2, <2>3, <2>4, <2>5 DEF Tick
  <1>2. QED
    BY Invariance, <1>1, PTL DEF SimSpec, EstopFreezes

=============================================================================
