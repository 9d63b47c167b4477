------------------------- MODULE USBTCPRemoteProofs -------------------------
(***************************************************************************)
(* Proofs about USBTCPRemote: type correctness; that the device does to    *)
(* packets only what USBPacketService allows; and, for the first           *)
(* connection while it is open, the message protocol of the two ends, from *)
(* which it follows that every response is current and that nothing fails  *)
(* without a cause.                                                        *)
(***************************************************************************)
EXTENDS USBTCPRemote, TLAPS

\* A step that names no prover is Zenon's; arithmetic, and what records and sequences
\* are made of, is left to SMT.
USE ZenonT(20)

\* The conjuncts of TypeOK, in three parts.
ReaderOK(r) ==
    /\ r \in Readers
    /\ r.pc \in {"recv", "head", "got", "data"} => r.on \in Conns
    /\ r.pc \in {"got", "data"} => r.m \in Messages

ThreadsOK ==
    /\ apc \in {"accept", "opened", "attach", "test", "wait", "asleep"}
    /\ fd \in 0 .. MaxConns
    /\ accepted \in 0 .. made
    /\ made \in 0 .. MaxConns
    /\ cut \subseteq 1 .. made
    /\ ioc \in 0 .. made
    /\ reader \in [Conns -> Readers]
    /\ \A c \in Conns : ReaderOK(reader[c])

FlagsOK ==
    /\ closed \in BOOLEAN /\ attached \in BOOLEAN /\ gaveUp \in BOOLEAN
    /\ bhs \subseteq {"completed", "cleanup"}
    /\ fate \in {"fine", "abort", "wild", "mixed"}

PacketsOK ==
    /\ op \in Calls
    /\ pstate \in [Packets -> {"free", "setup", "async", "canceled"}]
    /\ gen \in [Packets -> Nat]
    /\ completed \in Seq([p : Packets, g : Nat])

WiresOK ==
    /\ toPeer \in [Conns -> Seq(Requests)]
    /\ toDev \in [Conns -> Seq(Messages)]
    /\ hqueue \in [Packets -> Seq(Nat)]

LEMMA TypeParts == TypeOK <=> ThreadsOK /\ FlagsOK /\ PacketsOK /\ WiresOK
BY DEF TypeOK, ThreadsOK, FlagsOK, PacketsOK, WiresOK, ReaderOK

LEMMA TypePartsPrimed == TypeOK' <=> ThreadsOK' /\ FlagsOK' /\ PacketsOK' /\ WiresOK'
BY DEF TypeOK, ThreadsOK, FlagsOK, PacketsOK, WiresOK, ReaderOK

-----------------------------------------------------------------------------
(* Helpers that several steps use.                                         *)

LEMMA ConnsNat == MaxConns \in Nat /\ \A n \in 0 .. MaxConns : n # 0 => n \in Conns
BY USBAssumption, SMT DEF Conns

LEMMA ClosedTyped ==
    ASSUME FlagsOK, NEW r \in Calls, Closed(r)
    PROVE  /\ op' \in Calls /\ op'.kind = r.kind /\ op'.p = r.p
           /\ closed' \in BOOLEAN /\ bhs' \subseteq {"completed", "cleanup"}
<1>1. CleanInflight(r) \in Calls /\ CleanInflight(r).kind = r.kind /\ CleanInflight(r).p = r.p
  BY Zenon DEF CleanInflight, Calls
<1> QED BY <1>1, Zenon DEF Closed, FlagsOK

LEMMA ReaderSet ==
    ASSUME reader \in [Conns -> Readers], \A c \in Conns : ReaderOK(reader[c]),
           NEW c \in Conns, NEW r, ReaderOK(r), reader' = [reader EXCEPT ![c] = r]
    PROVE  reader' \in [Conns -> Readers] /\ \A d \in Conns : ReaderOK(reader'[d])
<1>1. r \in Readers
  BY DEF ReaderOK
<1>2. \A d \in Conns : reader'[d] = IF d = c THEN r ELSE reader[d]
  OBVIOUS
<1> QED BY <1>1, <1>2

-----------------------------------------------------------------------------
(* Type correctness, thread by thread.                                     *)

LEMMA AcceptThreadTyped ==
    ASSUME TypeOK, AcceptThread
    PROVE  /\ TypeOK'
           /\ UNCHANGED <<op, pstate>> /\ (attached => attached')
<1>0. ThreadsOK /\ FlagsOK /\ PacketsOK /\ WiresOK
  BY TypeParts
<1>1. CASE Accept
  <2>1. ThreadsOK'
    BY <1>0, <1>1, USBAssumption, SMT DEF Accept, ThreadsOK, peerVars, ReaderOK
  <2> QED BY <1>0, <1>1, <2>1, TypePartsPrimed DEF Accept, peerVars, FlagsOK,
             PacketsOK, WiresOK
<1>2. CASE Open \/ Test \/ Sleep
  <2>1. ThreadsOK'
    BY <1>0, <1>2, Zenon DEF Open, Test, Sleep, ThreadsOK, peerVars, ReaderOK
  <2> QED BY <1>0, <1>2, <2>1, TypePartsPrimed, Zenon
          DEF Open, Test, Sleep, peerVars, FlagsOK, PacketsOK, WiresOK
<1>3. CASE Attach
  <2>1. ThreadsOK'
    <3>1. CASE attached
      BY <1>0, <1>3, <3>1 DEF Attach, ThreadsOK, peerVars, ReaderOK
    <3>2. CASE ~attached
      <4>1. /\ reader' = [reader EXCEPT ![accepted].pc = "enter"] /\ apc' = "test"
            /\ UNCHANGED <<fd, accepted, peerVars>>
        BY <1>3, <3>2 DEF Attach
      <4>2. reader' \in [Conns -> Readers] /\ \A d \in Conns : ReaderOK(reader'[d])
        <5>1. CASE accepted \in Conns
          <6> DEFINE r == [reader[accepted] EXCEPT !.pc = "enter"]
          <6>1. ReaderOK(r)
            BY <1>0, <5>1, SMT DEF ThreadsOK, ReaderOK, Readers
          <6>2. reader' = [reader EXCEPT ![accepted] = r]
            BY <4>1
          <6> HIDE DEF r
          <6> QED BY <1>0, <5>1, <6>1, <6>2, ReaderSet, Zenon DEF ThreadsOK
        <5>2. CASE accepted \notin Conns
          <6>1. reader' = reader
            BY <1>0, <4>1, <5>2 DEF ThreadsOK
          <6> QED BY <1>0, <6>1 DEF ThreadsOK
        <5> QED BY <5>1, <5>2
      <4> QED BY <1>0, <4>1, <4>2 DEF ThreadsOK, peerVars
    <3> QED BY <3>1, <3>2
  <2>2. FlagsOK'
    BY <1>0, <1>3, ZenonT(30) DEF Attach, FlagsOK
  <2> QED BY <1>0, <1>3, <2>1, <2>2, TypePartsPrimed DEF Attach, peerVars, PacketsOK,
             WiresOK
<1> QED BY <1>1, <1>2, <1>3 DEF AcceptThread

LEMMA ReadThreadTyped ==
    \A c \in Conns :
        TypeOK /\ ReadThread(c) =>
            /\ TypeOK'
            /\ UNCHANGED <<pstate, attached>> /\ op'.kind = op.kind /\ op'.p = op.p
            /\ fate' = fate \/ fate' \in {"wild", "mixed"}
<1>OpenReader.
      ASSUME NEW pc, NEW on \in 0 .. MaxConns,
             pc = "fail" \/ (pc = "recv" /\ on \in Conns)
      PROVE  ReaderOK([NoReader EXCEPT !.pc = pc, !.on = on])
  <2> USE <1>OpenReader
  <2>1. NoReader \in Readers
    <3>1. NoMsg \in Messages \cup {NoMsg} /\ 0 \in 0 .. MaxConns
      BY USBAssumption, SMT
    <3> HIDE DEF NoMsg
    <3> QED BY <3>1 DEF NoReader, Readers
  <2> DEFINE r == [NoReader EXCEPT !.pc = pc, !.on = on]
  <2> HIDE DEF NoReader
  <2>2. r \in Readers /\ r.pc = pc /\ r.on = on
    BY <2>1, Zenon DEF Readers
  <2> HIDE DEF r
  <2>3. ReaderOK(r)
    BY <2>2 DEF ReaderOK
  <2> QED BY <2>3 DEF r
<1>FreshReader.
      ASSUME NEW pc \in {"enter", "fail", "done"}
      PROVE  ReaderOK([NoReader EXCEPT !.pc = pc])
  <2> USE <1>FreshReader
  <2>1. NoMsg \in Messages \cup {NoMsg} /\ 0 \in 0 .. MaxConns
    BY USBAssumption, SMT
  <2> HIDE DEF NoMsg
  <2>2. [NoReader EXCEPT !.pc = pc] = [pc |-> pc, on |-> 0, m |-> NoMsg, hit |-> "none", g |-> 0]
    BY SMT DEF NoReader
  <2> QED BY <2>1, <2>2, SMT DEF ReaderOK, Readers
<1>ApplyTyped.
      ASSUME ThreadsOK, FlagsOK, PacketsOK, NEW c \in Conns, NEW m \in Messages, NEW hit,
             NEW g \in Nat, Apply(c, m, hit, g)
      PROVE  /\ reader' \in [Conns -> Readers] /\ \A d \in Conns : ReaderOK(reader'[d])
             /\ op' \in Calls /\ op'.kind = op.kind /\ op'.p = op.p
             /\ closed' \in BOOLEAN /\ bhs' \subseteq {"completed", "cleanup"}
             /\ completed' \in Seq([p : Packets, g : Nat])
             /\ fate' = fate \/ fate' \in {"wild", "mixed"}
  <2> USE <1>ApplyTyped
  <2> DEFINE p == m.p
             next(cl) == [reader EXCEPT ![c] = [NoReader EXCEPT !.pc = IF cl THEN "done" ELSE "enter"]]
  <2>0. p \in Packets /\ m.status \in {"async", "nak", "ok"}
    BY DEF Messages
  <2>1. ASSUME NEW cl \in BOOLEAN, reader' = next(cl)
        PROVE  reader' \in [Conns -> Readers] /\ \A d \in Conns : ReaderOK(reader'[d])
    <3> DEFINE r == [NoReader EXCEPT !.pc = IF cl THEN "done" ELSE "enter"]
    <3>1. ReaderOK(r)
      BY <1>FreshReader
    <3>2. reader' = [reader EXCEPT ![c] = r]
      BY <2>1
    <3> HIDE DEF r
    <3> QED BY <3>1, <3>2, ReaderSet, Zenon DEF ThreadsOK
  <2>2. op \in Calls /\ closed \in BOOLEAN
    BY DEF PacketsOK, FlagsOK
  <2>3. CASE hit = "none"
    <3>1. reader' = next(closed) /\ UNCHANGED <<op, closed, bhs, completed, fate>>
      BY <2>3 DEF Apply
    <3> QED BY <2>1, <2>2, <3>1, Zenon DEF FlagsOK, PacketsOK
  <2>4. CASE hit # "none" /\ (~Live([p |-> p, g |-> g]) \/ (hit # "queue" /\ ~(op.kind = hit /\ op.p = p)))
    <3>1. fate' = "wild" /\ UNCHANGED <<reader, op, closed, bhs, completed>>
      BY <2>4 DEF Apply
    <3> QED BY <3>1 DEF FlagsOK, PacketsOK, ThreadsOK
  <2>5. CASE /\ hit # "none"
             /\ ~(~Live([p |-> p, g |-> g]) \/ (hit # "queue" /\ ~(op.kind = hit /\ op.p = p)))
             /\ pstate[p] = "async" /\ m.status \in {"nak", "async"}
    <3>1. Closed(op) /\ reader' = next(TRUE) /\ UNCHANGED <<completed, fate>>
      BY <2>5 DEF Apply
    <3>2. /\ op' \in Calls /\ op'.kind = op.kind /\ op'.p = op.p
          /\ closed' \in BOOLEAN /\ bhs' \subseteq {"completed", "cleanup"}
      BY <2>2, <3>1, ClosedTyped
    <3>3. completed' \in Seq([p : Packets, g : Nat]) /\ fate' = fate
      BY <3>1 DEF PacketsOK
    <3> QED BY <2>1, <3>1, <3>2, <3>3, Zenon
  <2>6. CASE /\ hit # "none"
             /\ ~(~Live([p |-> p, g |-> g]) \/ (hit # "queue" /\ ~(op.kind = hit /\ op.p = p)))
             /\ ~(pstate[p] = "async" /\ m.status \in {"nak", "async"})
    <3>1. /\ reader' = next(closed) /\ UNCHANGED <<closed, fate>>
          /\ \/ op' = [op EXCEPT !.handled = TRUE, !.status = m.status] /\ UNCHANGED <<completed, bhs>>
             \/ UNCHANGED <<op, completed, bhs>>
             \/ /\ completed' = Append(completed, [p |-> p, g |-> g])
                /\ bhs' = bhs \cup {"completed"}
                /\ UNCHANGED op
      BY <2>6 DEF Apply
    <3>2. op' \in Calls /\ op'.kind = op.kind /\ op'.p = op.p
      <4>1. CASE UNCHANGED op
        BY <2>2, <4>1
      <4>2. CASE op' = [op EXCEPT !.handled = TRUE, !.status = m.status]
        BY <2>0, <2>2, <4>2, Zenon DEF Calls
      <4> QED BY <3>1, <4>1, <4>2
    <3>3. completed' \in Seq([p : Packets, g : Nat])
      <4> DEFINE S == [p : Packets, g : Nat]
                 x == [p |-> p, g |-> g]
      <4>1. x \in S /\ completed \in Seq(S)
        BY <2>0 DEF PacketsOK
      <4>2. completed' = completed \/ completed' = Append(completed, x)
        BY <3>1
      <4> HIDE DEF S, x
      <4>3. completed' \in Seq(S)
        BY <4>1, <4>2, SMTT(20)
      <4> QED BY <4>3 DEF S
    <3>4. closed' \in BOOLEAN /\ bhs' \subseteq {"completed", "cleanup"} /\ fate' = fate
      BY <3>1 DEF FlagsOK
    <3> QED BY <2>1, <2>2, <3>1, <3>2, <3>3, <3>4, Zenon
  <2> QED BY <2>3, <2>4, <2>5, <2>6
<1>ReadThreadTyped.
      ASSUME TypeOK, NEW c \in Conns, ReadThread(c)
      PROVE  /\ TypeOK'
             /\ UNCHANGED <<pstate, attached>> /\ op'.kind = op.kind /\ op'.p = op.p
             /\ fate' = fate \/ fate' \in {"wild", "mixed"}
  <2> USE <1>ReadThreadTyped
  <2>0. ThreadsOK /\ FlagsOK /\ PacketsOK /\ WiresOK
    BY TypeParts
  <2>1. /\ reader \in [Conns -> Readers] /\ (\A d \in Conns : ReaderOK(reader[d]))
        /\ ReaderOK(reader[c]) /\ reader[c] \in Readers
    BY <2>0 DEF ThreadsOK
  <2>2. CASE ReadEnter(c)
    <3> DEFINE r == [NoReader EXCEPT !.pc = IF fd = 0 THEN "fail" ELSE "recv", !.on = fd]
    <3>1. ReaderOK(r)
      BY <2>0, ConnsNat, <1>OpenReader, Zenon DEF ThreadsOK
    <3>2. reader' = [reader EXCEPT ![c] = r]
      BY <2>2 DEF ReadEnter
    <3> HIDE DEF r
    <3>3. reader' \in [Conns -> Readers] /\ \A d \in Conns : ReaderOK(reader'[d])
      BY <2>1, <3>1, <3>2, ReaderSet, Zenon
    <3>4. ThreadsOK'
      BY <2>0, <2>2, <3>3 DEF ReadEnter, ThreadsOK, peerVars
    <3> QED BY <2>0, <2>2, <3>4, TypePartsPrimed DEF ReadEnter, peerVars, FlagsOK,
               PacketsOK, WiresOK
  <2>3. ASSUME NEW pc \in {"head", "fail"}, reader' = [reader EXCEPT ![c].pc = pc],
               pc = "head" => reader[c].on \in Conns
        PROVE  reader' \in [Conns -> Readers] /\ \A d \in Conns : ReaderOK(reader'[d])
    <3> DEFINE r == [reader[c] EXCEPT !.pc = pc]
    <3>1. ReaderOK(r)
      BY <2>1, <2>3 DEF ReaderOK, Readers
    <3>2. reader' = [reader EXCEPT ![c] = r]
      BY <2>3
    <3> HIDE DEF r
    <3> QED BY <2>1, <3>1, <3>2, ReaderSet, Zenon
  <2>3a. CASE Recv(c)
    <3>0. reader[c].on \in Conns
      BY <2>1, <2>3a DEF Recv, ReaderOK
    <3>1. reader' \in [Conns -> Readers] /\ \A d \in Conns : ReaderOK(reader'[d])
      <4>1. CASE UNCHANGED reader
        BY <2>1, <4>1
      <4>2. CASE ~UNCHANGED reader
        <5>1. PICK pc \in {"head", "fail"} : reader' = [reader EXCEPT ![c].pc = pc]
          BY <2>3a, <4>2 DEF Recv
        <5> QED BY <2>3, <3>0, <5>1
      <4> QED BY <4>1, <4>2
    <3>2. fate' = fate \/ fate' = "mixed"
      BY <2>3a DEF Recv
    <3>3. ThreadsOK'
      BY <2>0, <2>3a, <3>1 DEF Recv, ThreadsOK, peerVars
    <3>4. FlagsOK' /\ PacketsOK' /\ WiresOK'
      BY <2>0, <2>3a, <3>2 DEF Recv, FlagsOK, PacketsOK, WiresOK, peerVars
    <3> QED BY <2>3a, <3>2, <3>3, <3>4, TypePartsPrimed DEF Recv
  <2>3b. ASSUME RecvElsewhere(c)
         PROVE  /\ reader' \in [Conns -> Readers] /\ \A d \in Conns : ReaderOK(reader'[d])
                /\ fate' = fate \/ fate' = "mixed"
    <3>1. CASE UNCHANGED reader
      BY <2>1, <2>3b, <3>1 DEF RecvElsewhere
    <3>2. CASE reader' = [reader EXCEPT ![c].pc = "fail"]
      BY <2>3, <2>3b, <3>2 DEF RecvElsewhere
    <3> QED BY <2>3b, <3>1, <3>2 DEF RecvElsewhere
  <2>3c. CASE RecvRest(c)
    <3>0. reader[c].pc = "head" /\ reader[c].on \in Conns
      BY <2>1, <2>3c DEF RecvRest, ReaderOK
    <3>1. CASE /\ toDev[reader[c].on] # <<>> /\ UNCHANGED fate
               /\ reader' = [reader EXCEPT ![c].pc = "got", ![c].m = Head(toDev[reader[c].on])]
               /\ toDev' = [toDev EXCEPT ![reader[c].on] = Tail(@)]
      <4> DEFINE q == toDev[reader[c].on]
                 h == Head(q)
                 r == [reader[c] EXCEPT !.pc = "got", !.m = h]
      <4>1. q \in Seq(Messages) /\ q # <<>>
        BY <2>0, <3>0, <3>1 DEF WiresOK
      <4>2. h \in Messages /\ Tail(q) \in Seq(Messages)
        BY <4>1, SMT
      <4>3. reader' = [reader EXCEPT ![c] = r] /\ toDev' = [toDev EXCEPT ![reader[c].on] = Tail(q)]
        BY <2>1, <3>1, Zenon
      <4> HIDE DEF q, h
      <4>4. ReaderOK(r)
        BY <2>1, <3>0, <4>2, Zenon DEF ReaderOK, Readers
      <4> HIDE DEF r
      <4>5. reader' \in [Conns -> Readers] /\ \A d \in Conns : ReaderOK(reader'[d])
        BY <2>1, <4>3, <4>4, ReaderSet, Zenon
      <4>6. ThreadsOK'
        BY <2>0, <2>3c, <4>5 DEF RecvRest, ThreadsOK, peerVars
      <4>7. WiresOK'
        BY <2>0, <2>3c, <4>2, <4>3, Zenon DEF RecvRest, WiresOK, peerVars
      <4>8. FlagsOK' /\ PacketsOK'
        BY <2>0, <2>3c, <3>1 DEF RecvRest, FlagsOK, PacketsOK
      <4> QED BY <2>3c, <3>1, <4>6, <4>7, <4>8, TypePartsPrimed DEF RecvRest
    <3>2. CASE RecvElsewhere(c) /\ UNCHANGED toDev
      <4>1. ThreadsOK'
        BY <2>0, <2>3b, <2>3c, <3>2 DEF RecvRest, ThreadsOK, peerVars
      <4>2. FlagsOK' /\ PacketsOK' /\ WiresOK'
        BY <2>0, <2>3b, <2>3c, <3>2 DEF RecvRest, FlagsOK, PacketsOK, WiresOK, peerVars
      <4> QED BY <2>3b, <2>3c, <3>2, <4>1, <4>2, TypePartsPrimed DEF RecvRest
    <3> QED BY <2>3c, <3>1, <3>2 DEF RecvRest
  <2>4. CASE ReadFail(c)
    <3> DEFINE r == [NoReader EXCEPT !.pc = "done"]
    <3>1. ReaderOK(r)
      BY <1>FreshReader
    <3>2. reader' = [reader EXCEPT ![c] = r]
      BY <2>4 DEF ReadFail
    <3> HIDE DEF r
    <3>3. reader' \in [Conns -> Readers] /\ \A d \in Conns : ReaderOK(reader'[d])
      BY <2>1, <3>1, <3>2, ReaderSet, Zenon
    <3>4. /\ op' \in Calls /\ op'.kind = op.kind /\ op'.p = op.p
          /\ closed' \in BOOLEAN /\ bhs' \subseteq {"completed", "cleanup"}
      BY <2>0, <2>4, ClosedTyped DEF ReadFail, PacketsOK
    <3>5. ThreadsOK'
      BY <2>0, <2>4, <3>3 DEF ReadFail, ThreadsOK, peerVars
    <3>6. FlagsOK' /\ PacketsOK' /\ WiresOK'
      BY <2>0, <2>4, <3>4 DEF ReadFail, FlagsOK, PacketsOK, WiresOK, peerVars
    <3> QED BY <2>4, <3>4, <3>5, <3>6, TypePartsPrimed DEF ReadFail
  <2>5. ASSUME \/ ReadGot(c) /\ Apply(c, reader[c].m, HitOf(reader[c].m), gen[reader[c].m.p])
               \/ ReadData(c) /\ Apply(c, reader[c].m, reader[c].hit, reader[c].g)
        PROVE  /\ TypeOK'
               /\ UNCHANGED <<pstate, attached>> /\ op'.kind = op.kind /\ op'.p = op.p
               /\ fate' = fate \/ fate' \in {"wild", "mixed"}
    <3>1. PICK m, hit, g : /\ m = reader[c].m /\ g \in {gen[m.p], reader[c].g}
                           /\ Apply(c, m, hit, g)
      BY <2>5
    <3>2. reader[c].pc \in {"got", "data"}
      BY <2>5 DEF ReadGot, ReadData
    <3>3. m \in Messages
      BY <2>1, <3>1, <3>2 DEF ReaderOK
    <3>4. m.p \in Packets
      BY <3>3 DEF Messages
    <3>5. g \in Nat
      BY <2>0, <2>1, <3>1, <3>4, SMT DEF Readers, PacketsOK
    <3>6. /\ reader' \in [Conns -> Readers] /\ \A d \in Conns : ReaderOK(reader'[d])
          /\ op' \in Calls /\ op'.kind = op.kind /\ op'.p = op.p
          /\ closed' \in BOOLEAN /\ bhs' \subseteq {"completed", "cleanup"}
          /\ completed' \in Seq([p : Packets, g : Nat])
          /\ fate' = fate \/ fate' \in {"wild", "mixed"}
      BY <2>0, <3>1, <3>3, <3>5, <1>ApplyTyped, Zenon
    <3>7. /\ UNCHANGED <<fd, attached, apc, pstate, gen, accepted, gaveUp>>
          /\ UNCHANGED <<peerVars, toPeer, toDev>>
      BY <2>5 DEF ReadGot, ReadData
    <3>8. ThreadsOK'
      BY <2>0, <3>6, <3>7 DEF ThreadsOK, peerVars
    <3>9. FlagsOK' /\ PacketsOK' /\ WiresOK'
      BY <2>0, <3>6, <3>7 DEF FlagsOK, PacketsOK, WiresOK, peerVars
    <3> QED BY <3>6, <3>7, <3>8, <3>9, TypePartsPrimed
  <2>6. ASSUME \/ /\ ReadGot(c)
                  /\ reader' = [reader EXCEPT ![c].pc = "data", ![c].hit = HitOf(reader[c].m),
                                              ![c].g = gen[reader[c].m.p]]
               \/ ReadData(c) /\ reader' = [reader EXCEPT ![c].pc = "fail"],
               UNCHANGED <<op, closed, bhs, completed, fate>>
        PROVE  /\ TypeOK'
               /\ UNCHANGED <<pstate, attached>> /\ op'.kind = op.kind /\ op'.p = op.p
               /\ fate' = fate \/ fate' \in {"wild", "mixed"}
    <3>1. PICK r : ReaderOK(r) /\ reader' = [reader EXCEPT ![c] = r]
      <4>1. CASE ReadData(c) /\ reader' = [reader EXCEPT ![c].pc = "fail"]
        <5> DEFINE r == [reader[c] EXCEPT !.pc = "fail"]
        <5>1. ReaderOK(r) /\ reader' = [reader EXCEPT ![c] = r]
          BY <2>1, <4>1 DEF ReaderOK, Readers
        <5> HIDE DEF r
        <5> QED BY <5>1, Zenon
      <4>2. CASE /\ ReadGot(c)
                 /\ reader' = [reader EXCEPT ![c].pc = "data", ![c].hit = HitOf(reader[c].m),
                                             ![c].g = gen[reader[c].m.p]]
        <5> DEFINE h == HitOf(reader[c].m)
                   g == gen[reader[c].m.p]
                   r == [reader[c] EXCEPT !.pc = "data", !.hit = h, !.g = g]
        <5>1. reader[c].m \in Messages /\ reader[c].m.p \in Packets /\ reader[c].on \in Conns
          BY <2>1, <4>2 DEF ReadGot, ReaderOK, Messages
        <5>2. h \in {"none", "packet", "cancel", "queue"} /\ g \in Nat
          BY <2>0, <5>1 DEF HitOf, PacketsOK, Calls
        <5>3. reader' = [reader EXCEPT ![c] = r]
          BY <2>1, <4>2, Zenon
        <5> HIDE DEF h, g
        <5>4. ReaderOK(r)
          BY <2>1, <5>1, <5>2, Zenon DEF ReaderOK, Readers
        <5> HIDE DEF r
        <5> QED BY <5>3, <5>4, Zenon
      <4> QED BY <2>6, <4>1, <4>2
    <3>2. reader' \in [Conns -> Readers] /\ \A d \in Conns : ReaderOK(reader'[d])
      BY <2>1, <3>1, ReaderSet, Zenon
    <3>3. /\ UNCHANGED <<fd, attached, apc, pstate, gen, accepted, gaveUp>>
          /\ UNCHANGED <<peerVars, toPeer, toDev>>
      BY <2>6 DEF ReadGot, ReadData
    <3>4. ThreadsOK'
      BY <2>0, <3>2, <3>3 DEF ThreadsOK, peerVars
    <3>5. FlagsOK' /\ PacketsOK' /\ WiresOK'
      BY <2>0, <2>6, <3>3 DEF FlagsOK, PacketsOK, WiresOK, peerVars
    <3> QED BY <2>6, <3>3, <3>4, <3>5, TypePartsPrimed
  <2>7. CASE ReadGot(c)
    BY <2>5, <2>6, <2>7 DEF ReadGot
  <2>8. CASE ReadData(c)
    <3>1. CASE RecvElsewhere(c) /\ UNCHANGED <<op, closed, bhs, completed>>
      <4>1. /\ UNCHANGED <<fd, attached, apc, pstate, gen, accepted, gaveUp>>
            /\ UNCHANGED <<peerVars, toPeer, toDev>>
        BY <2>8 DEF ReadData
      <4>2. ThreadsOK'
        BY <2>0, <2>3b, <3>1, <4>1 DEF ThreadsOK, peerVars
      <4>3. FlagsOK' /\ PacketsOK' /\ WiresOK'
        BY <2>0, <2>3b, <3>1, <4>1 DEF FlagsOK, PacketsOK, WiresOK, peerVars
      <4> QED BY <2>3b, <3>1, <4>1, <4>2, <4>3, TypePartsPrimed
    <3> QED BY <2>5, <2>6, <2>8, <3>1 DEF ReadData
  <2> QED BY <2>2, <2>3a, <2>3c, <2>4, <2>7, <2>8 DEF ReadThread
<1> QED BY <1>ReadThreadTyped

LEMMA BottomHalvesTyped ==
    ASSUME TypeOK, BottomHalves
    PROVE  TypeOK'
<1>0. ThreadsOK /\ FlagsOK /\ PacketsOK /\ WiresOK
  BY TypeParts
<1> DEFINE States == {"free", "setup", "async", "canceled"}
<1>1. CompleteAll(completed) \in [Packets -> States]
  BY <1>0 DEF CompleteAll, PacketsOK
<1>2. [p \in Packets |-> IF pstate[p] = "async" THEN "free" ELSE pstate[p]] \in [Packets -> States]
  BY <1>0 DEF PacketsOK
<1>3. <<>> \in Seq([p : Packets, g : Nat])
  BY SMT
<1>4. CASE CleanupBH
  <2>1. ThreadsOK'
    <3>1. fd' \in 0 .. MaxConns
      BY <1>0, <1>4, USBAssumption, SMT DEF CleanupBH, ThreadsOK
    <3>2. apc' \in {"accept", "opened", "attach", "test", "wait", "asleep"}
      BY <1>0, <1>4 DEF CleanupBH, ThreadsOK
    <3> QED BY <1>0, <1>4, <3>1, <3>2 DEF CleanupBH, ThreadsOK, peerVars
  <2>2. FlagsOK'
    <3>1. CleanCompletedFate \in {"fine", "abort", "wild"}
      BY DEF CleanCompletedFate
    <3> QED BY <1>0, <1>4, <3>1, Zenon DEF CleanupBH, FlagsOK
  <2>3. PacketsOK'
    <3>1. pstate' \in [Packets -> States]
      BY <1>0, <1>1, <1>2, <1>4 DEF CleanupBH, PacketsOK
    <3>2. completed' \in Seq([p : Packets, g : Nat])
      BY <1>0, <1>3, <1>4, Zenon DEF CleanupBH, PacketsOK
    <3> QED BY <1>0, <1>4, <3>1, <3>2 DEF CleanupBH, PacketsOK
  <2>4. WiresOK'
    <3>1. <<>> \in Seq(Messages)
      BY SMT
    <3>2. [toDev EXCEPT ![fd] = <<>>] \in [Conns -> Seq(Messages)]
      BY <1>0, <3>1, Zenon DEF WiresOK
    <3>3. toDev' \in [Conns -> Seq(Messages)]
      BY <1>0, <1>4, <3>2 DEF CleanupBH, WiresOK
    <3> QED BY <1>0, <1>4, <3>3 DEF CleanupBH, WiresOK, peerVars
  <2> QED BY <2>1, <2>2, <2>3, <2>4, TypePartsPrimed
<1>5. CASE CompletedBH
  <2>1. pstate' \in [Packets -> States] /\ completed' \in Seq([p : Packets, g : Nat])
    BY <1>0, <1>1, <1>3, <1>5 DEF CompletedBH, PacketsOK
  <2>2. PacketsOK'
    BY <1>0, <1>5, <2>1 DEF CompletedBH, PacketsOK
  <2>3. FlagsOK'
    BY <1>0, <1>5 DEF CompletedBH, FlagsOK
  <2>4. ThreadsOK' /\ WiresOK'
    BY <1>0, <1>5 DEF CompletedBH, ThreadsOK, WiresOK, peerVars
  <2> QED BY <2>2, <2>3, <2>4, TypePartsPrimed
<1> QED BY <1>4, <1>5 DEF BottomHalves

LEMMA ControllerTyped ==
    TypeOK /\ Controller => TypeOK'
<1>WriteTyped.
      ASSUME WiresOK, NEW m \in Requests, Write(m)
      PROVE  toPeer' \in [Conns -> Seq(Requests)]
  <2> USE <1>WriteTyped
  <2>1. CASE fd \in Conns
    <3>1. Append(toPeer[fd], m) \in Seq(Requests)
      BY <2>1, SMT DEF WiresOK
    <3>2. toPeer' = toPeer \/ toPeer' = [toPeer EXCEPT ![fd] = Append(toPeer[fd], m)]
      BY DEF Write
    <3> QED BY <3>1, <3>2, Zenon DEF WiresOK
  <2>2. CASE fd \notin Conns
    <3>1. toPeer' = toPeer
      BY <2>2 DEF Write, WiresOK
    <3> QED BY <3>1 DEF WiresOK
  <2> QED BY <2>1, <2>2
<1>ControllerTyped.
      ASSUME TypeOK, Controller
      PROVE  TypeOK'
  <2> USE <1>ControllerTyped
  <2>0. ThreadsOK /\ FlagsOK /\ PacketsOK /\ WiresOK
    BY TypeParts
  <2> DEFINE States == {"free", "setup", "async", "canceled"}
  <2>1. ASSUME NEW p \in Packets, HandlePacket(p)
        PROVE  TypeOK'
    <3> DEFINE r == [kind |-> "packet", p |-> p, handled |-> FALSE, status |-> "none"]
               m == [type |-> "request", p |-> p, g |-> gen[p] + 1]
    <3>1. r \in Calls /\ m \in Requests
      BY <2>0, SMT DEF Calls, Requests, PacketsOK
    <3>2. /\ op' = op \/ op' = r
          /\ pstate' = pstate \/ pstate' = [pstate EXCEPT ![p] = "setup"]
          /\ gen' = gen \/ gen' = [gen EXCEPT ![p] = @ + 1]
          /\ toPeer' = toPeer \/ Write(m)
          /\ UNCHANGED <<closed, bhs>> \/ (closed' = TRUE /\ bhs' = bhs \cup {"cleanup"})
          /\ UNCHANGED <<fd, attached, apc, reader, completed, accepted, gaveUp>>
          /\ UNCHANGED <<peerVars, toDev, fate>>
      BY <2>1 DEF HandlePacket
    <3> HIDE DEF r, m
    <3>3. toPeer' \in [Conns -> Seq(Requests)]
      BY <2>0, <3>1, <3>2, <1>WriteTyped DEF WiresOK
    <3>4. ThreadsOK' /\ WiresOK'
      BY <2>0, <3>2, <3>3 DEF ThreadsOK, WiresOK, peerVars
    <3>5. FlagsOK'
      BY <2>0, <3>2, Zenon DEF FlagsOK
    <3>6. PacketsOK'
      <4>1. gen' \in [Packets -> Nat] /\ pstate' \in [Packets -> States]
        BY <2>0, <3>2, SMTT(20) DEF PacketsOK
      <4> QED BY <2>0, <3>1, <3>2, <4>1 DEF PacketsOK
    <3> QED BY <3>4, <3>5, <3>6, TypePartsPrimed
  <2>2. ASSUME NEW p \in Packets, CancelPacket(p)
        PROVE  TypeOK'
    <3> DEFINE r == [kind |-> "cancel", p |-> p, handled |-> FALSE, status |-> "none"]
               m == [type |-> "cancel", p |-> p, g |-> gen[p]]
    <3>1. r \in Calls /\ m \in Requests
      BY <2>0 DEF Calls, Requests, PacketsOK
    <3>2. /\ \/ UNCHANGED <<op, closed, bhs>>
             \/ Closed(r)
             \/ op' = r /\ UNCHANGED <<closed, bhs>>
          /\ \/ pstate' = [pstate EXCEPT ![p] = "free"]
             \/ pstate' = [pstate EXCEPT ![p] = "canceled"]
          /\ toPeer' = toPeer \/ Write(m)
          /\ UNCHANGED <<fd, attached, apc, reader, gen, completed, accepted, gaveUp>>
          /\ UNCHANGED <<peerVars, toDev, fate>>
      BY <2>2 DEF CancelPacket
    <3> HIDE DEF r, m
    <3>3. toPeer' \in [Conns -> Seq(Requests)]
      BY <2>0, <3>1, <3>2, <1>WriteTyped DEF WiresOK
    <3>4. ThreadsOK' /\ WiresOK'
      BY <2>0, <3>2, <3>3 DEF ThreadsOK, WiresOK, peerVars
    <3>5. op' \in Calls /\ closed' \in BOOLEAN /\ bhs' \subseteq {"completed", "cleanup"}
      <4>1. ASSUME Closed(r)
            PROVE  op' \in Calls /\ closed' \in BOOLEAN /\ bhs' \subseteq {"completed", "cleanup"}
        BY <2>0, <3>1, <4>1, ClosedTyped
      <4> QED BY <2>0, <3>1, <3>2, <4>1, Zenon DEF PacketsOK, FlagsOK
    <3>6. FlagsOK'
      BY <2>0, <3>2, <3>5 DEF FlagsOK
    <3>7. PacketsOK'
      <4>1. pstate' \in [Packets -> States]
        BY <2>0, <3>2 DEF PacketsOK
      <4> QED BY <2>0, <3>2, <3>5, <4>1 DEF PacketsOK
    <3> QED BY <3>4, <3>6, <3>7, TypePartsPrimed
  <2>3. CASE PacketDone \/ CancelDone
    <3>1. NoOp \in Calls
      BY DEF NoOp, Calls
    <3>2. pstate' \in [Packets -> States]
      <4>1. \E s \in {"free", "async"} : pstate' = [pstate EXCEPT ![op.p] = s]
        BY <2>3 DEF PacketDone, CancelDone
      <4> QED BY <2>0, <4>1, Zenon DEF PacketsOK
    <3>3. gaveUp' \in BOOLEAN
      <4>1. op.handled \in BOOLEAN /\ gaveUp \in BOOLEAN
        BY <2>0 DEF PacketsOK, FlagsOK, Calls
      <4> QED BY <2>3, <4>1, Zenon DEF PacketDone, CancelDone
    <3>4. ThreadsOK' /\ WiresOK'
      BY <2>0, <2>3, Zenon DEF PacketDone, CancelDone, ThreadsOK, WiresOK, peerVars
    <3>5. FlagsOK'
      BY <2>0, <2>3, <3>3, Zenon DEF PacketDone, CancelDone, FlagsOK
    <3>6. PacketsOK'
      BY <2>0, <2>3, <3>1, <3>2 DEF PacketDone, CancelDone, PacketsOK
    <3> QED BY <3>4, <3>5, <3>6, TypePartsPrimed
  <2>4. CASE HandleReset
    <3> DEFINE m == [type |-> "reset", p |-> NoPacket, g |-> 0]
    <3>1. m \in Requests /\ <<>> \in Seq([p : Packets, g : Nat])
      BY SMTT(20) DEF Requests
    <3>2. /\ UNCHANGED <<op, closed, bhs>> \/ Closed(op)
          /\ toPeer' = toPeer \/ Write(m)
          /\ fate' = CleanCompletedFate /\ completed' = <<>>
          /\ UNCHANGED <<fd, attached, apc, reader, pstate, gen, accepted, gaveUp>>
          /\ UNCHANGED <<peerVars, toDev>>
      BY <2>4 DEF HandleReset
    <3> HIDE DEF m
    <3>3. toPeer' \in [Conns -> Seq(Requests)]
      BY <2>0, <3>1, <3>2, <1>WriteTyped DEF WiresOK
    <3>4. ThreadsOK' /\ WiresOK'
      BY <2>0, <3>2, <3>3 DEF ThreadsOK, WiresOK, peerVars
    <3>5. op' \in Calls /\ closed' \in BOOLEAN /\ bhs' \subseteq {"completed", "cleanup"}
      <4>1. ASSUME Closed(op)
            PROVE  op' \in Calls /\ closed' \in BOOLEAN /\ bhs' \subseteq {"completed", "cleanup"}
        BY <2>0, <4>1, ClosedTyped DEF PacketsOK
      <4> QED BY <2>0, <3>2, <4>1, Zenon DEF PacketsOK, FlagsOK
    <3>6. CleanCompletedFate \in {"fine", "abort", "wild"}
      BY DEF CleanCompletedFate
    <3>7. FlagsOK'
      BY <2>0, <3>2, <3>5, <3>6 DEF FlagsOK
    <3>8. PacketsOK'
      BY <2>0, <3>1, <3>2, <3>5 DEF PacketsOK
    <3> QED BY <3>4, <3>7, <3>8, TypePartsPrimed
  <2> QED BY <2>1, <2>2, <2>3, <2>4 DEF Controller
<1> QED BY <1>ControllerTyped

LEMMA PeerTyped ==
    TypeOK /\ Peer => TypeOK' /\ UNCHANGED <<op, pstate, attached, fate>>
<1>RespondTyped.
      ASSUME ThreadsOK, WiresOK, NEW p \in Packets, NEW g \in Nat,
             NEW status \in {"async", "nak", "ok"}, Respond(p, g, status)
      PROVE  toDev' \in [Conns -> Seq(Messages)]
  <2> USE <1>RespondTyped
  <2> DEFINE m == [p |-> p, g |-> g, status |-> status]
  <2>1. m \in Messages
    BY DEF Messages
  <2>2. ioc = 0 \/ ioc \in Conns
    BY ConnsNat, SMT DEF ThreadsOK
  <2>3. toDev' = toDev \/ (ioc # 0 /\ toDev' = [toDev EXCEPT ![ioc] = Append(toDev[ioc], m)])
    BY DEF Respond
  <2> HIDE DEF m
  <2>4. ioc \in Conns => Append(toDev[ioc], m) \in Seq(Messages)
    BY <2>1, SMT DEF WiresOK
  <2> QED BY <2>2, <2>3, <2>4, Zenon DEF WiresOK
<1>PeerTyped.
      ASSUME TypeOK, Peer
      PROVE  TypeOK' /\ UNCHANGED <<op, pstate, attached, fate>>
  <2> USE <1>PeerTyped
  <2>0. ThreadsOK /\ FlagsOK /\ PacketsOK /\ WiresOK
    BY TypeParts
  <2>1. CASE PeerConnect
    <3>1. ThreadsOK'
      BY <2>0, <2>1, USBAssumption, SMT DEF PeerConnect, ThreadsOK, devVars, ReaderOK
    <3> QED BY <2>0, <2>1, <3>1, TypePartsPrimed
            DEF PeerConnect, devVars, FlagsOK, PacketsOK, WiresOK
  <2>2. CASE PeerClosed
    <3>1. ThreadsOK'
      BY <2>0, <2>2, USBAssumption, SMT DEF PeerClosed, ThreadsOK, devVars, ReaderOK
    <3>2. <<>> \in Seq(Requests)
      BY SMT
    <3>3. WiresOK'
      BY <2>0, <2>2, <3>2, Zenon DEF PeerClosed, WiresOK
    <3> QED BY <2>0, <2>2, <3>1, <3>3, TypePartsPrimed DEF PeerClosed, devVars,
               FlagsOK, PacketsOK
  <2>3. CASE PeerRead
    <3> DEFINE q == toPeer[ioc]
               m == Head(q)
    <3>1. ioc \in Conns /\ q \in Seq(Requests) /\ q # <<>>
      <4>1. ioc # 0 /\ q # <<>>
        BY <2>3, Zenon DEF PeerRead
      <4>2. ioc \in 0 .. MaxConns
        BY <2>0, USBAssumption, SMT DEF ThreadsOK
      <4>3. ioc \in Conns
        BY ONLY <4>1, <4>2, ConnsNat, SMT
      <4> QED BY <2>0, <4>1, <4>3 DEF WiresOK
    <3>2. m \in Requests /\ Tail(q) \in Seq(Requests)
      BY <3>1, SMT
    <3>3. toPeer' \in [Conns -> Seq(Requests)]
      <4>1. toPeer' = [toPeer EXCEPT ![ioc] = Tail(q)]
        BY <2>3, Zenon DEF PeerRead
      <4> HIDE DEF q
      <4> QED BY <2>0, <3>2, <4>1, ZenonT(30) DEF WiresOK
    <3>4. /\ hqueue' \in [Packets -> Seq(Nat)]
          /\ toDev' \in [Conns -> Seq(Messages)]
      <4> DEFINE Asks ==
                     /\ m.type = "request"
                     /\ \/ /\ hqueue' = [hqueue EXCEPT ![m.p] = Append(@, m.g)]
                           /\ Respond(m.p, m.g, "async")
                        \/ /\ \E status \in {"ok", "nak"} : Respond(m.p, m.g, status)
                           /\ UNCHANGED hqueue
                 Cancels ==
                     /\ m.type = "cancel" /\ hqueue[m.p] # <<>>
                     /\ hqueue' = [hqueue EXCEPT ![m.p] = Tail(@)]
                     /\ Respond(m.p, Head(hqueue[m.p]), "async")
      <4>1. Asks \/ Cancels \/ UNCHANGED <<hqueue, toDev>>
        BY <2>3, Zenon DEF PeerRead
      <4> HIDE DEF m
      <4>2. m.type \in {"request", "cancel"} => m.p \in Packets /\ m.g \in Nat
        BY <3>2, SMT DEF Requests
      <4>3. CASE Asks
        <5>1. m.p \in Packets /\ m.g \in Nat
          BY <4>2, <4>3
        <5>2. PICK status \in {"async", "nak", "ok"} : Respond(m.p, m.g, status)
          BY <4>3
        <5>3. hqueue' = hqueue \/ hqueue' = [hqueue EXCEPT ![m.p] = Append(hqueue[m.p], m.g)]
          BY <4>3
        <5>4. Append(hqueue[m.p], m.g) \in Seq(Nat)
          BY <2>0, <5>1, SMT DEF WiresOK
        <5> HIDE DEF Asks
        <5> QED BY <2>0, <5>1, <5>2, <5>3, <5>4, <1>RespondTyped, Zenon DEF WiresOK
      <4>4. CASE Cancels
        <5>1. m.p \in Packets /\ hqueue[m.p] \in Seq(Nat) /\ hqueue[m.p] # <<>>
          BY <2>0, <4>2, <4>4 DEF WiresOK
        <5>2. Head(hqueue[m.p]) \in Nat /\ Tail(hqueue[m.p]) \in Seq(Nat)
          BY <5>1, SMT
        <5>3. /\ hqueue' = [hqueue EXCEPT ![m.p] = Tail(hqueue[m.p])]
              /\ Respond(m.p, Head(hqueue[m.p]), "async")
          BY ONLY <4>4, Zenon
        <5> HIDE DEF Cancels
        <5> QED BY <2>0, <5>1, <5>2, <5>3, <1>RespondTyped DEF WiresOK
      <4>5. CASE UNCHANGED <<hqueue, toDev>>
        BY <2>0, <4>5 DEF WiresOK
      <4> HIDE DEF Asks, Cancels
      <4> QED BY ONLY <4>1, <4>3, <4>4, <4>5, Zenon
    <3>5. ThreadsOK' /\ WiresOK'
      <4>1. UNCHANGED <<apc, fd, accepted, made, cut, ioc, reader>>
        BY <2>3, Zenon DEF PeerRead, devVars
      <4>2. ThreadsOK'
        BY <2>0, <4>1 DEF ThreadsOK
      <4> QED BY <3>3, <3>4, <4>2 DEF WiresOK
    <3>6. UNCHANGED <<devVars, fate>>
      BY <2>3, Zenon DEF PeerRead
    <3>7. FlagsOK' /\ PacketsOK' /\ UNCHANGED <<op, pstate, attached, fate>>
      BY <2>0, <3>6 DEF devVars, FlagsOK, PacketsOK
    <3> QED BY <3>5, <3>7, TypePartsPrimed
  <2>4. ASSUME NEW p \in Packets, PeerComplete(p)
        PROVE  TypeOK' /\ UNCHANGED <<op, pstate, attached, fate>>
    <3>1. hqueue[p] \in Seq(Nat) /\ hqueue[p] # <<>>
      BY <2>0, <2>4 DEF PeerComplete, WiresOK
    <3>2. Head(hqueue[p]) \in Nat /\ Tail(hqueue[p]) \in Seq(Nat)
      BY <3>1, SMT
    <3>3. hqueue' = [hqueue EXCEPT ![p] = Tail(hqueue[p])] /\ Respond(p, Head(hqueue[p]), "ok")
      BY <2>4 DEF PeerComplete
    <3>4. toDev' \in [Conns -> Seq(Messages)]
      BY <2>0, <3>2, <3>3, <1>RespondTyped
    <3>5. ThreadsOK' /\ WiresOK'
      BY <2>0, <2>4, <3>2, <3>3, <3>4 DEF PeerComplete, ThreadsOK, WiresOK, devVars
    <3> QED BY <2>0, <2>4, <3>5, TypePartsPrimed DEF PeerComplete, devVars, FlagsOK,
               PacketsOK
  <2> QED BY <2>1, <2>2, <2>3, <2>4 DEF Peer
<1> QED BY <1>PeerTyped

LEMMA InitTyped == Init => TypeOK
<1> SUFFICES ASSUME Init PROVE TypeOK
  OBVIOUS
<1>1. NoReader \in Readers /\ NoReader.pc = "none"
  <2>1. NoMsg \in Messages \cup {NoMsg} /\ 0 \in 0 .. MaxConns
    BY USBAssumption, SMT
  <2> HIDE DEF NoMsg
  <2> QED BY <2>1 DEF NoReader, Readers
<1>2. ThreadsOK
  <2> HIDE DEF NoReader
  <2> QED BY <1>1, USBAssumption, SMT DEF Init, ThreadsOK, ReaderOK
<1>3. FlagsOK
  BY Zenon DEF Init, FlagsOK
<1>4. NoOp \in Calls
  BY DEF NoOp, Calls
<1>5. PacketsOK
  BY <1>4, SMT DEF Init, PacketsOK
<1>6. WiresOK
  BY SMT DEF Init, WiresOK
<1> QED BY <1>2, <1>3, <1>5, <1>6, TypeParts

LEMMA NextTyped == TypeOK /\ [Next]_vars => TypeOK'
<1> SUFFICES ASSUME TypeOK, [Next]_vars PROVE TypeOK'
  OBVIOUS
<1>1. CASE AcceptThread
  BY <1>1, AcceptThreadTyped
<1>2. ASSUME NEW c \in Conns, ReadThread(c) PROVE TypeOK'
  BY <1>2, ReadThreadTyped
<1>3. CASE BottomHalves
  BY <1>3, BottomHalvesTyped
<1>4. CASE Controller
  BY <1>4, ControllerTyped
<1>5. CASE Peer
  BY <1>5, PeerTyped
<1>6. CASE UNCHANGED vars
  BY <1>6, SMT DEF TypeOK, vars, devVars, peerVars
<1> QED BY <1>1, <1>2, <1>3, <1>4, <1>5, <1>6 DEF Next

\* Both ends, the threads and what is on the wire keep their types: what is
\* read from a connection is always a response and what the peer reads always a
\* request, whoever closes or reconnects when (dev-tcp-remote.c, hcd-tcp.c).
THEOREM TypeCorrect == Spec => []TypeOK
<1> QED BY InitTyped, NextTyped, PTL DEF Spec

-----------------------------------------------------------------------------
(* The calls of the controller.                                            *)

\* A packet is in a call exactly while the controller's call for it is in
\* progress.
CallsMatch ==
    /\ op.kind = "packet" => op.p \in Packets /\ pstate[op.p] = "setup"
    /\ op.kind = "cancel" => op.p \in Packets /\ pstate[op.p] = "canceled"
    /\ \A p \in Packets :
           /\ pstate[p] = "setup" => op.kind = "packet" /\ op.p = p
           /\ pstate[p] = "canceled" => op.kind = "cancel" /\ op.p = p

LEMMA CompleteAllKeeps ==
    ASSUME PacketsOK, NEW q, NEW p \in Packets
    PROVE  /\ CompleteAll(q)[p] = pstate[p] \/ (pstate[p] = "async" /\ CompleteAll(q)[p] = "free")
BY DEF CompleteAll, PacketsOK

LEMMA CallsStep ==
    TypeOK /\ CallsMatch /\ [Next]_vars => CallsMatch'
\* A step that only ends packets that are kept.
<1>EndingKeepsCalls.
      ASSUME PacketsOK, CallsMatch, op'.kind = op.kind, op'.p = op.p,
             \A p \in Packets : pstate'[p] = pstate[p] \/ (pstate[p] = "async" /\ pstate'[p] = "free")
      PROVE  CallsMatch'
  BY <1>EndingKeepsCalls, SMT DEF CallsMatch, PacketsOK
<1>CallsStep. TypeOK /\ CallsMatch /\ [Next]_vars => CallsMatch'
  <2> SUFFICES ASSUME TypeOK, CallsMatch, [Next]_vars PROVE CallsMatch'
    OBVIOUS
  <2>0. PacketsOK
    BY TypeParts
  <2>1. CASE AcceptThread
    BY <2>1, AcceptThreadTyped DEF CallsMatch
  <2>2. ASSUME NEW c \in Conns, ReadThread(c) PROVE CallsMatch'
    BY <2>0, <2>2, ReadThreadTyped, <1>EndingKeepsCalls
  <2>3. CASE BottomHalves
    <3>1. \A p \in Packets : pstate'[p] = pstate[p] \/ (pstate[p] = "async" /\ pstate'[p] = "free")
      BY <2>0, <2>3, CompleteAllKeeps DEF BottomHalves, CleanupBH, CompletedBH
    <3>2. UNCHANGED op
      BY <2>3 DEF BottomHalves, CleanupBH, CompletedBH
    <3> QED BY <2>0, <3>1, <3>2, <1>EndingKeepsCalls
  <2>4. ASSUME NEW p \in Packets, HandlePacket(p) PROVE CallsMatch'
    <3>1. CASE UNCHANGED <<op, pstate>>
      BY <3>1 DEF CallsMatch
    <3>2. CASE /\ op' = [kind |-> "packet", p |-> p, handled |-> FALSE, status |-> "none"]
               /\ pstate' = [pstate EXCEPT ![p] = "setup"]
      BY <2>0, <2>4, <3>2 DEF HandlePacket, CallsMatch, PacketsOK
    <3> QED BY <2>4, <3>1, <3>2 DEF HandlePacket
  <2>5. ASSUME NEW p \in Packets, CancelPacket(p) PROVE CallsMatch'
    <3> DEFINE r == [kind |-> "cancel", p |-> p, handled |-> FALSE, status |-> "none"]
    <3>0. op.kind = "none" /\ pstate[p] = "async"
      BY <2>5 DEF CancelPacket
    <3>1. CASE UNCHANGED op /\ pstate' = [pstate EXCEPT ![p] = "free"]
      BY <2>0, <3>0, <3>1, <1>EndingKeepsCalls DEF PacketsOK
    <3>2. CASE (Closed(r) \/ op' = r) /\ pstate' = [pstate EXCEPT ![p] = "canceled"]
      <4>1. op'.kind = "cancel" /\ op'.p = p
        <5>1. r \in Calls /\ r.kind = "cancel" /\ r.p = p
          BY DEF Calls
        <5> HIDE DEF r
        <5>2. FlagsOK
          BY TypeParts
        <5> QED BY <3>2, <5>1, <5>2, ClosedTyped
      <4> QED BY <2>0, <3>0, <3>2, <4>1 DEF CallsMatch, PacketsOK
    <3> QED BY <2>5, <3>1, <3>2, ZenonT(30) DEF CancelPacket
  <2>6. CASE PacketDone \/ CancelDone
    <3>1. /\ op.p \in Packets /\ op.kind # "none" /\ op' = NoOp
          /\ \E s \in {"free", "async"} : pstate' = [pstate EXCEPT ![op.p] = s]
      BY <2>6 DEF PacketDone, CancelDone, CallsMatch
    <3> QED BY <2>0, <3>1, SMTT(20) DEF CallsMatch, PacketsOK, NoOp, Calls
  <2>7. CASE HandleReset
    <3>1. UNCHANGED pstate /\ (Closed(op) \/ UNCHANGED op)
      BY <2>7 DEF HandleReset
    <3>2. op'.kind = op.kind /\ op'.p = op.p
      BY <2>0, <3>1, TypeParts, ClosedTyped DEF PacketsOK
    <3>3. \A p \in Packets : pstate'[p] = pstate[p]
      BY <3>1
    <3> QED BY <2>0, <3>2, <3>3, <1>EndingKeepsCalls
  <2>8. CASE Peer
    BY <2>8, PeerTyped DEF CallsMatch
  <2>9. CASE UNCHANGED vars
    BY <2>9 DEF CallsMatch, vars, devVars
  <2> QED BY <2>1, <2>2, <2>3, <2>4, <2>5, <2>6, <2>7, <2>8, <2>9 DEF Next, Controller
<1> QED BY <1>CallsStep

\* Whenever the controller is in a call of the device, the packet of the call,
\* and no other, is in the state that the call has put it in: a response, a
\* clean-up or a bottom half in the meantime never changes it under the caller
\* (usb_tcp_remote_handle_packet, usb_tcp_remote_cancel_packet).
THEOREM CallsOwnTheirPacket == Spec => []CallsMatch
<1>1. Init => CallsMatch
  BY SMT DEF Init, CallsMatch, NoOp
<1> QED BY <1>1, CallsStep, TypeCorrect, PTL DEF Spec

-----------------------------------------------------------------------------
(* The device implements USBPacketService.                                 *)

\* The refinement mapping of Service, packet by packet.
PhaseOf(s) ==
    CASE s = "free" -> "home"
      [] s = "setup" -> "busy"
      [] s = "async" -> "kept"
      [] s = "canceled" -> "leaving"
Phase == [p \in Packets |-> PhaseOf(pstate[p])]
Alive == fate = "fine"

\* Step simulation: what each step does to the packets.
LEMMA ServiceStep ==
    TypeOK /\ CallsMatch /\ [Next]_vars => [Service!Next]_(Service!vars)
<1>PhaseCases.
      ASSUME PacketsOK, NEW p \in Packets
      PROVE  /\ Phase[p] = "home" <=> pstate[p] = "free"
             /\ Phase[p] = "busy" <=> pstate[p] = "setup"
             /\ Phase[p] = "kept" <=> pstate[p] = "async"
             /\ Phase[p] = "leaving" <=> pstate[p] = "canceled"
             /\ Phase[p] = PhaseOf(pstate[p])
  BY <1>PhaseCases DEF Phase, PhaseOf, PacketsOK
\* A step that puts packet p into state s.
<1>PhaseMoves.
      ASSUME PacketsOK, NEW p \in Packets, NEW s, pstate' = [pstate EXCEPT ![p] = s]
      PROVE  Phase' = [Phase EXCEPT ![p] = PhaseOf(s)]
  <2> USE <1>PhaseMoves
  <2>1. \A q \in Packets : pstate'[q] = IF q = p THEN s ELSE pstate[q]
    BY DEF PacketsOK
  <2>2. Phase' = [q \in Packets |-> PhaseOf(pstate'[q])]
    BY DEF Phase
  <2>3. [Phase EXCEPT ![p] = PhaseOf(s)]
            = [q \in Packets |-> IF q = p THEN PhaseOf(s) ELSE PhaseOf(pstate[q])]
    BY Zenon DEF Phase
  <2>4. ASSUME NEW q \in Packets
        PROVE  PhaseOf(pstate'[q]) = IF q = p THEN PhaseOf(s) ELSE PhaseOf(pstate[q])
    BY <2>1, SMT
  <2> QED BY <2>2, <2>3, <2>4
<1>ServiceMove.
      ASSUME NEW p \in Packets, NEW from, NEW to, Running, Phase[p] = from,
             Phase' = [Phase EXCEPT ![p] = to], attached' = attached, fate' = fate
      PROVE  Service!Move(p, from, to)
  BY <1>ServiceMove, Zenon DEF Service!Move, Running, Phase, PhaseOf
\* A step that changes no packet and not whether the device is attached.
<1>ServiceStays.
      ASSUME Running, UNCHANGED <<pstate, attached>>
      PROVE  [Service!Next]_(Service!vars)
  <2> USE <1>ServiceStays
  <2>1. CASE fate' = "fine"
    BY <2>1, SMT DEF Service!vars, Running
  <2>2. CASE fate' # "fine"
    <3>1. Service!Fail
      BY <2>2, SMTT(20) DEF Service!Fail
    <3> QED BY <3>1 DEF Service!Next
  <2> QED BY <2>1, <2>2
\* A step that gives back some of the kept packets.
<1>ServiceCompletes.
      ASSUME PacketsOK, Running, fate' = fate, attached' = attached,
             \A p \in Packets : pstate'[p] = pstate[p] \/ (pstate[p] = "async" /\ pstate'[p] = "free")
      PROVE  [Service!Next]_(Service!vars)
  <2> USE <1>ServiceCompletes
  <2>0. PICK S \in SUBSET Packets : S = {p \in Packets : pstate[p] = "async" /\ pstate'[p] = "free"}
    BY Zenon
  <2>1. \A p \in S : Phase[p] = "kept"
    BY <2>0, <1>PhaseCases
  <2>2. Phase' = [p \in Packets |-> IF p \in S THEN "home" ELSE Phase[p]]
    <3>1. Phase' = [p \in Packets |-> PhaseOf(pstate'[p])]
      BY DEF Phase
    <3>2. ASSUME NEW p \in Packets
          PROVE  PhaseOf(pstate'[p]) = IF p \in S THEN "home" ELSE Phase[p]
      <4>1. pstate'[p] = pstate[p] \/ p \in S
        BY <2>0
      <4>2. CASE p \in S
        BY <2>0, <4>2 DEF PhaseOf
      <4>3. CASE p \notin S
        BY <4>1, <4>3, <1>PhaseCases
      <4> QED BY <4>2, <4>3
    <3> QED BY <3>1, <3>2
  <2>3. Service!Complete(S)
    BY <2>1, <2>2, Zenon DEF Service!Complete, Phase, PhaseOf, Running
  <2> QED BY <2>3 DEF Service!Next
<1>ServiceStep.
      ASSUME TypeOK, CallsMatch, [Next]_vars
      PROVE  [Service!Next]_(Service!vars)
  <2> USE <1>ServiceStep
  <2>0. PacketsOK
    BY TypeParts
  <2>1. CASE AcceptThread
    <3>0. Running
      BY <2>1 DEF AcceptThread, Accept, Open, Attach, Test, Sleep
    <3>1. CASE UNCHANGED attached
      BY <2>1, <3>0, <3>1, AcceptThreadTyped, <1>ServiceStays
    <3>2. CASE ~UNCHANGED attached
      <4>1. ~attached /\ attached' = TRUE /\ UNCHANGED <<pstate, fate>>
        BY <2>1, <3>2 DEF AcceptThread, Accept, Open, Attach, Test, Sleep
      <4>2. Service!Attach
        BY <3>0, <4>1, SMTT(20) DEF Service!Attach, Running
      <4> QED BY <4>2 DEF Service!Next
    <3> QED BY <3>1, <3>2
  <2>2. ASSUME NEW c \in Conns, ReadThread(c) PROVE [Service!Next]_(Service!vars)
    <3>0. Running
      BY <2>2 DEF ReadThread, ReadEnter, Recv, RecvRest, ReadFail, ReadGot, ReadData
    <3> QED BY <2>2, <3>0, ReadThreadTyped, <1>ServiceStays
  <2>3. CASE CleanupBH
    <3>0. Running
      BY <2>3 DEF CleanupBH
    <3>1. CASE UNCHANGED <<pstate, attached>>
      BY <3>0, <3>1, <1>ServiceStays
    <3>2. CASE ~UNCHANGED <<pstate, attached>> /\ ~attached
      <4>1. pstate' = CompleteAll(completed) /\ attached' = FALSE /\ fate' = "fine"
        BY <2>3, <3>2 DEF CleanupBH
      <4>2. attached' = attached
        BY <3>2, <4>1, Zenon DEF TypeOK
      <4> QED BY <2>0, <3>0, <4>1, <4>2, CompleteAllKeeps, <1>ServiceCompletes DEF Running
    <3>3. CASE ~UNCHANGED <<pstate, attached>> /\ attached
      <4>1. /\ pstate' = [p \in Packets |-> IF pstate[p] = "async" THEN "free" ELSE pstate[p]]
            /\ attached' = FALSE /\ fate' = "fine" /\ op.kind # "packet"
        BY <2>3, <3>3, Zenon DEF CleanupBH, MainLoopFree
      <4>2. \A p \in Packets : Phase[p] # "busy"
        BY <2>0, <4>1, <1>PhaseCases, Zenon DEF CallsMatch
      <4>3. Phase' = [p \in Packets |-> IF Phase[p] = "kept" THEN "home" ELSE Phase[p]]
        <5>1. Phase' = [p \in Packets |-> PhaseOf(pstate'[p])]
          BY DEF Phase
        <5>2. ASSUME NEW p \in Packets
              PROVE  PhaseOf(pstate'[p]) = IF Phase[p] = "kept" THEN "home" ELSE Phase[p]
          <6>1. CASE pstate[p] = "async"
            <7>1. pstate'[p] = "free" /\ Phase[p] = "kept"
              BY <2>0, <4>1, <6>1, <1>PhaseCases
            <7> QED BY <7>1 DEF PhaseOf
          <6>2. CASE pstate[p] # "async"
            <7>1. pstate'[p] = pstate[p] /\ Phase[p] # "kept"
              BY <2>0, <4>1, <6>2, <1>PhaseCases
            <7> QED BY <2>0, <7>1, <1>PhaseCases
          <6> QED BY <6>1, <6>2
        <5> QED BY <5>1, <5>2
      <4>4. Service!Detach
        BY <3>0, <3>3, <4>1, <4>2, <4>3, Zenon DEF Service!Detach, Running, Phase, PhaseOf
      <4> QED BY <4>4 DEF Service!Next
    <3> QED BY <3>1, <3>2, <3>3
  <2>4. CASE CompletedBH
    <3>0. Running /\ attached' = attached
      BY <2>4 DEF CompletedBH
    <3>1. CASE UNCHANGED pstate
      BY <3>0, <3>1, <1>ServiceStays
    <3>2. CASE pstate' = CompleteAll(completed) /\ fate' = fate
      BY <2>0, <3>0, <3>2, CompleteAllKeeps, <1>ServiceCompletes
    <3> QED BY <2>4, <3>1, <3>2 DEF CompletedBH
  <2>5. ASSUME NEW p \in Packets, HandlePacket(p) PROVE [Service!Next]_(Service!vars)
    <3>0. Running /\ attached /\ attached' = attached /\ fate' = fate /\ pstate[p] = "free"
      BY <2>5 DEF HandlePacket
    <3>1. CASE UNCHANGED pstate
      BY <3>0, <3>1, <1>ServiceStays
    <3>2. CASE pstate' = [pstate EXCEPT ![p] = "setup"]
      <4>1. Phase' = [Phase EXCEPT ![p] = "busy"] /\ Phase[p] = "home"
        BY <2>0, <3>0, <3>2, <1>PhaseMoves, <1>PhaseCases, Zenon DEF PhaseOf
      <4>2. Service!Move(p, "home", "busy")
        BY <3>0, <4>1, <1>ServiceMove, Zenon
      <4>3. \A q \in Packets : Phase[q] \notin {"busy", "leaving"}
        BY <2>0, <2>5, <1>PhaseCases DEF CallsMatch, HandlePacket
      <4>4. Service!Submit(p)
        BY <3>0, <4>2, <4>3, ZenonT(30) DEF Service!Submit, Phase, PhaseOf
      <4> QED BY <4>4 DEF Service!Next
    <3> QED BY <2>5, <3>1, <3>2 DEF HandlePacket
  <2>6. ASSUME NEW p \in Packets, CancelPacket(p) PROVE [Service!Next]_(Service!vars)
    <3>0. Running /\ attached' = attached /\ fate' = fate /\ pstate[p] = "async"
      BY <2>6 DEF CancelPacket
    <3>1. Phase[p] = "kept"
      BY <2>0, <3>0, <1>PhaseCases
    <3>2. CASE pstate' = [pstate EXCEPT ![p] = "free"]
      BY <2>0, <3>0, <3>2, <1>ServiceCompletes DEF PacketsOK
    <3>3. CASE pstate' = [pstate EXCEPT ![p] = "canceled"]
      <4>1. Phase' = [Phase EXCEPT ![p] = "leaving"]
        BY <2>0, <3>3, <1>PhaseMoves, Zenon DEF PhaseOf
      <4>2. Service!Cancel(p)
        BY <3>0, <3>1, <4>1, <1>ServiceMove, Zenon DEF Service!Cancel
      <4> QED BY <4>2 DEF Service!Next
    <3> QED BY <2>6, <3>2, <3>3 DEF CancelPacket
  <2>7. CASE PacketDone
    <3>0. /\ Running /\ attached' = attached /\ fate' = fate
          /\ op.p \in Packets /\ pstate[op.p] = "setup"
      BY <2>7 DEF PacketDone, CallsMatch
    <3>1. PICK p \in Packets : p = op.p
      BY <3>0
    <3>2. Phase[p] = "busy"
      BY <2>0, <3>0, <3>1, <1>PhaseCases
    <3>3. CASE pstate' = [pstate EXCEPT ![p] = "async"]
      <4>1. Phase' = [Phase EXCEPT ![p] = "kept"]
        BY <2>0, <3>3, <1>PhaseMoves, Zenon DEF PhaseOf
      <4>2. Service!Answer(p)
        BY <3>0, <3>2, <4>1, <1>ServiceMove, Zenon DEF Service!Answer
      <4> QED BY <4>2 DEF Service!Next
    <3>4. CASE pstate' = [pstate EXCEPT ![p] = "free"]
      <4>1. Phase' = [Phase EXCEPT ![p] = "home"]
        BY <2>0, <3>4, <1>PhaseMoves, Zenon DEF PhaseOf
      <4>2. Service!Answer(p)
        BY <3>0, <3>2, <4>1, <1>ServiceMove, Zenon DEF Service!Answer
      <4> QED BY <4>2 DEF Service!Next
    <3> QED BY <2>7, <3>1, <3>3, <3>4, Zenon DEF PacketDone
  <2>8. CASE CancelDone
    <3>0. /\ Running /\ attached' = attached /\ fate' = fate
          /\ op.p \in Packets /\ pstate[op.p] = "canceled"
      BY <2>8 DEF CancelDone, CallsMatch
    <3>1. PICK p \in Packets : p = op.p
      BY <3>0
    <3>2. Phase[p] = "leaving"
      BY <2>0, <3>0, <3>1, <1>PhaseCases
    <3>3. pstate' = [pstate EXCEPT ![p] = "free"]
      BY <2>8, <3>1 DEF CancelDone
    <3>4. Phase' = [Phase EXCEPT ![p] = "home"]
      BY <2>0, <3>3, <1>PhaseMoves, Zenon DEF PhaseOf
    <3>5. Service!Cancelled(p)
      BY <3>0, <3>2, <3>4, <1>ServiceMove, Zenon DEF Service!Cancelled
    <3> QED BY <3>5 DEF Service!Next
  <2>9. CASE HandleReset
    BY <2>9, <1>ServiceStays DEF HandleReset
  <2>10. CASE Peer
    <3>1. Running
      BY <2>10, Zenon DEF Peer, PeerConnect, PeerClosed, PeerRead, PeerComplete
    <3>2. UNCHANGED <<pstate, attached>>
      BY <2>10, PeerTyped
    <3> QED BY <3>1, <3>2, <1>ServiceStays
  <2>11. CASE UNCHANGED vars
    BY <2>11, SMT DEF vars, devVars, Service!vars
  <2> QED BY <2>1, <2>2, <2>3, <2>4, <2>5, <2>6, <2>7, <2>8, <2>9, <2>10, <2>11
          DEF Next, BottomHalves, Controller
<1> QED BY <1>ServiceStep

\* Whatever the threads, the connections and the peer do, the device does to the
\* packets of the controller only what a USB device may do: it gives back each
\* packet once, keeps none when it is detached, and takes a packet only while it
\* is attached and no other call is in progress (dev-tcp-remote.c).
THEOREM KeepsContractSafely == Spec => Service!Safety
<1>1. Init => Service!Init
  <2> SUFFICES ASSUME Init PROVE Service!Init
    OBVIOUS
  <2>1. Phase = [p \in Packets |-> "home"]
    BY DEF Init, Phase, PhaseOf
  <2> QED BY <2>1 DEF Init, Service!Init, Phase, PhaseOf
<1>2. TypeOK /\ CallsMatch /\ [Next]_vars => [Service!Next]_(Service!vars)
  BY ServiceStep
<1> QED BY <1>1, <1>2, TypeCorrect, CallsOwnTheirPacket, PTL DEF Spec, Service!Safety

-----------------------------------------------------------------------------
(* The first connection, while it is open.                                 *)

\* The peer holds a connection or has hung it up, and what was written to it
\* before it hung up is lost.
LinksOK ==
    /\ ioc \notin cut
    /\ \A c \in 1 .. made : c = ioc \/ c \in cut
    /\ \A c \in cut : toPeer[c] = <<>>

\* Nothing has happened on the device's side of a connection.
Fresh ==
    /\ closed /\ ~attached /\ bhs = {}
    /\ reader = [c \in Conns |-> NoReader]
    /\ op = NoOp /\ completed = <<>>
    /\ pstate = [p \in Packets |-> "free"]
    /\ toPeer = [c \in Conns |-> <<>>]
    /\ toDev = [c \in Conns |-> <<>>]
    /\ hqueue = [p \in Packets |-> <<>>]

\* Until it is closed, the first connection is the only one that a thread of
\* the device is concerned with.
OnlyConnection ==
    /\ fd = 1 /\ "cleanup" \notin bhs
    /\ apc \in {"attach", "test", "wait", "asleep"}
    /\ apc = "attach" => ~attached
    /\ \A c \in Conns : c # 1 \/ apc = "attach" => reader[c] = NoReader

OpeningOK ==
    /\ accepted = 0 => Fresh /\ apc = "accept"
    /\ accepted = 1 /\ apc = "opened" => Fresh /\ fd = 1
    /\ accepted = 1 /\ ~closed => OnlyConnection

FirstOpen == fate = "fine" /\ ~gaveUp /\ ~closed /\ accepted = 1

\* A message about a packet is in a queue to the peer, to the device.
Sent(q, p, type) == \E i \in 1 .. Len(q) : q[i].p = p /\ q[i].type = type
Answered(q, p, status) == \E i \in 1 .. Len(q) : q[i].p = p /\ q[i].status = status

\* At most two messages about a packet are in a queue: to the peer, a
\* cancellation and then the next request; to the device, USB_RET_ASYNC and then
\* the completion.
RequestOrder(q) ==
    \A i, j \in 1 .. Len(q) :
        i < j /\ q[i].p = q[j].p /\ q[i].p \in Packets
            => q[i].type = "cancel" /\ q[j].type = "request"
ReplyOrder(q) ==
    \A i, j \in 1 .. Len(q) :
        i < j /\ q[i].p = q[j].p => q[i].status = "async" /\ q[j].status = "ok"

\* The responses that are on their way: the one the read thread holds, then
\* those it has not read.
Stream == IF reader[1].m = NoMsg THEN toDev[1] ELSE <<reader[1].m>> \o toDev[1]

Asked(p) == Sent(toPeer[1], p, "request")
Recalled(p) == Sent(toPeer[1], p, "cancel")
Queued(p) == ioc = 1 /\ hqueue[p] # <<>>
Reply(p, status) == Answered(Stream, p, status)
Ending(p) == Reply(p, "ok") \/ Reply(p, "nak")
Listed(p) == \E i \in 1 .. Len(completed) : completed[i].p = p
Waiting(p) == op.kind # "none" /\ op.p = p /\ ~op.handled
Settled(p) == /\ op.kind # "none" /\ op.p = p /\ op.handled
              /\ op.kind = "packet" => op.status # "async"

\* What can still end packet p is in one place at most: it is the request, the
\* peer's queue entry, the response or the entry of the completed queue.  Nothing
\* is left of a packet that was given back or whose call is about to return for
\* good.
PacketInv(p) ==
    /\ pstate[p] = "free" \/ Settled(p) =>
           ~Asked(p) /\ ~Queued(p) /\ ~Reply(p, "async") /\ ~Ending(p) /\ ~Listed(p)
    /\ Asked(p) => /\ pstate[p] = "setup" /\ Waiting(p)
                   /\ ~Queued(p) /\ ~Reply(p, "async") /\ ~Ending(p)
    /\ Reply(p, "async") =>
           /\ Waiting(p)
           /\ \/ pstate[p] = "setup"
              \/ pstate[p] = "canceled" /\ ~Queued(p) /\ ~Ending(p)
    /\ Reply(p, "nak") => /\ pstate[p] = "setup" /\ Waiting(p)
                          /\ ~Queued(p) /\ ~Reply(p, "async")
    /\ Queued(p) => hqueue[p] = <<gen[p]>> /\ ~Ending(p)
    /\ Listed(p) => /\ pstate[p] = "async" \/ (pstate[p] = "canceled" /\ Waiting(p))
                    /\ ~Queued(p) /\ ~Reply(p, "async") /\ ~Ending(p)
    /\ Recalled(p) => pstate[p] \in {"free", "canceled"} \/ Asked(p)

\* Everything under way is about the present submission of its packet.
RequestsPresent ==
    \A i \in 1 .. Len(toPeer[1]) :
        toPeer[1][i].type = "request" => toPeer[1][i].g = gen[toPeer[1][i].p]
RepliesPresent == \A i \in 1 .. Len(Stream) : Stream[i].g = gen[Stream[i].p]
ListPresent == \A i \in 1 .. Len(completed) : completed[i].g = gen[completed[i].p]

\* The first read thread holds a response only from its second recv() on.  A
\* packet that it found in the queue of its endpoint does not go back to being
\* set up before it is freed.
FirstReader ==
    /\ reader[1].pc \in {"recv", "head", "got", "data"} => reader[1].on = 1
    /\ reader[1].m # NoMsg => reader[1].pc \in {"got", "data", "fail"}
    /\ reader[1].pc = "data" => reader[1].m.status = "ok"
    /\ reader[1].pc = "data" /\ reader[1].hit = "queue"
          /\ reader[1].g = gen[reader[1].m.p] => pstate[reader[1].m.p] # "setup"

Protocol ==
    /\ RequestOrder(toPeer[1]) /\ ReplyOrder(Stream)
    /\ RequestsPresent /\ RepliesPresent /\ ListPresent
    /\ FirstReader
    /\ \A p \in Packets : PacketInv(p)

ProtocolInv == LinksOK /\ OpeningOK /\ (FirstOpen => Protocol)

-----------------------------------------------------------------------------
(* Queues: what taking the first message and adding a last one change.     *)

LEMMA TailEntries ==
    ASSUME NEW S, NEW q \in Seq(S), q # <<>>
    PROVE  /\ Len(q) \in Nat /\ Len(q) >= 1 /\ Len(Tail(q)) = Len(q) - 1
           /\ q[1] = Head(q) /\ Head(q) \in S /\ Tail(q) \in Seq(S)
           /\ \A i \in 1 .. Len(Tail(q)) : Tail(q)[i] = q[i + 1]
BY SMTT(20)

LEMMA AppendEntries ==
    ASSUME NEW S, NEW q \in Seq(S), NEW m \in S
    PROVE  /\ Len(q) \in Nat /\ Len(Append(q, m)) = Len(q) + 1
           /\ Append(q, m) \in Seq(S)
           /\ \A i \in 1 .. Len(q) : Append(q, m)[i] = q[i]
           /\ Append(q, m)[Len(q) + 1] = m
BY SMT

LEMMA ConsEntries ==
    ASSUME NEW S, NEW q \in Seq(S), NEW m \in S
    PROVE  /\ <<m>> \o q \in Seq(S) /\ <<m>> \o q # <<>>
           /\ Head(<<m>> \o q) = m /\ Tail(<<m>> \o q) = q
<1>1. <<m>> \in Seq(S) /\ Len(<<m>>) = 1 /\ <<m>>[1] = m
  BY SMT
<1> DEFINE c == <<m>> \o q
<1>2. c \in Seq(S) /\ Len(c) = Len(q) + 1 /\ Len(q) \in Nat
  BY <1>1, SMTT(20)
<1>3. c[1] = m /\ \A i \in 1 .. Len(q) : c[i + 1] = q[i]
  BY <1>1, SMT
<1> HIDE DEF c
<1>4. c # <<>> /\ Head(c) = m
  BY <1>2, <1>3, SMTT(20)
<1>5. Tail(c) \in Seq(S) /\ Len(Tail(c)) = Len(q) /\ \A i \in 1 .. Len(q) : Tail(c)[i] = q[i]
  BY <1>2, <1>3, <1>4, SMTT(20)
<1>6. Tail(c) = q
  BY <1>5, SMT
<1> QED BY <1>2, <1>4, <1>6 DEF c

LEMMA ListEntries ==
    ASSUME NEW q \in Seq([p : Packets, g : Nat]), NEW i \in 1 .. Len(q)
    PROVE  q[i].p \in Packets
<1>1. PICK S : S = [p : Packets, g : Nat]
  BY Zenon
<1>2. q \in Seq(S)
  BY <1>1
<1>3. q[i] \in S
  BY <1>2, SMTT(20)
<1> QED BY <1>1, <1>3

LEMMA RequestPacket ==
    \A m \in Requests : m.type \in {"request", "cancel"} => m.p \in Packets
BY SMT DEF Requests

LEMMA MessagePackets ==
    ASSUME NEW q \in Seq(Messages), NEW i \in 1 .. Len(q)
    PROVE  q[i] \in Messages /\ q[i].p \in Packets
<1>1. q[i] \in Messages
  BY SMT
<1> QED BY <1>1 DEF Messages

\* The completed queue is left alone or thrown away.
LEMMA ListShrinks ==
    ASSUME UNCHANGED completed \/ completed' = <<>>
    PROVE  /\ \A p : Listed(p)' => Listed(p)
           /\ ListPresent /\ UNCHANGED gen => ListPresent'
<1>1. CASE UNCHANGED completed
  BY <1>1, Zenon DEF Listed, ListPresent
<1>2. CASE completed' = <<>>
  <2>1. 1 .. Len(completed') = {}
    BY <1>2, SMT
  <2> QED BY <2>1, Zenon DEF Listed, ListPresent
<1> QED BY <1>1, <1>2, Zenon

\* Something that is no request is written, or nothing.
LEMMA RequestsStayPresent ==
    ASSUME RequestsPresent, UNCHANGED gen, NEW a \in Seq(Requests), NEW m \in Requests,
           a = toPeer[1], m.type # "request",
           (a = <<>> /\ toPeer'[1] = <<>>) \/ toPeer'[1] = Append(a, m)
    PROVE  RequestsPresent'
<1>1. PICK b : b = toPeer'[1]
  BY Zenon
<1>2. CASE b = <<>>
  <2>1. 1 .. Len(b) = {}
    BY <1>2, SMT
  <2> QED BY <1>1, <2>1, Zenon DEF RequestsPresent
<1>3. CASE b = Append(a, m)
  <2>1. /\ Len(a) \in Nat /\ Len(b) = Len(a) + 1 /\ b[Len(a) + 1] = m
        /\ \A i \in 1 .. Len(a) : b[i] = a[i]
    BY <1>3, AppendEntries, SMTT(20)
  <2>2. \A i \in 1 .. Len(b) : b[i] = m \/ (i \in 1 .. Len(a) /\ b[i] = a[i])
    BY <2>1, SMT
  <2>3. \A i \in 1 .. Len(b) : b[i].type = "request" => b[i].g = gen[b[i].p]
    BY <2>2, Zenon DEF RequestsPresent
  <2> QED BY <1>1, <2>3, Zenon DEF RequestsPresent
<1> QED BY <1>1, <1>2, <1>3, Zenon

LEMMA AnsweredTail ==
    ASSUME NEW q \in Seq(Messages), q # <<>>, NEW p, NEW s
    PROVE  Answered(q, p, s) <=> Answered(Tail(q), p, s) \/ (Head(q).p = p /\ Head(q).status = s)
<1>1. PICK h, t : h = Head(q) /\ t = Tail(q)
  BY Zenon
<1>2. /\ Len(q) \in Nat /\ Len(q) >= 1 /\ Len(t) = Len(q) - 1 /\ q[1] = h
      /\ \A i \in 1 .. Len(t) : t[i] = q[i + 1]
  BY <1>1, TailEntries
<1>3. ASSUME Answered(q, p, s) PROVE Answered(t, p, s) \/ (h.p = p /\ h.status = s)
  <2>1. PICK i \in 1 .. Len(q) : q[i].p = p /\ q[i].status = s
    BY <1>3 DEF Answered
  <2>2. CASE i # 1
    <3>1. i - 1 \in 1 .. Len(t) /\ t[i - 1] = q[(i - 1) + 1] /\ (i - 1) + 1 = i
      BY <1>2, <2>2, SMTT(20)
    <3> QED BY <2>1, <3>1 DEF Answered
  <2> QED BY <1>2, <2>1, <2>2
<1>4. ASSUME Answered(t, p, s) PROVE Answered(q, p, s)
  <2>1. PICK i \in 1 .. Len(t) : t[i].p = p /\ t[i].status = s
    BY <1>4 DEF Answered
  <2>2. i + 1 \in 1 .. Len(q) /\ q[i + 1] = t[i]
    BY <1>2, SMT
  <2> QED BY <2>1, <2>2 DEF Answered
<1>5. h.p = p /\ h.status = s => Answered(q, p, s)
  BY <1>2, SMTT(20) DEF Answered
<1> QED BY <1>1, <1>3, <1>4, <1>5

-----------------------------------------------------------------------------
(* The links and the opening of the first connection.                      *)

LEMMA ConnTypes ==
    ASSUME TypeOK
    PROVE  /\ made \in Nat /\ accepted \in 0 .. made /\ ioc \in 0 .. made /\ cut \subseteq 1 .. made
           /\ \A c \in 1 .. made : c \in Conns
           /\ ioc # 0 => ioc \in Conns
           /\ toPeer \in [Conns -> Seq(Requests)] /\ toDev \in [Conns -> Seq(Messages)]
<1>1. made \in 0 .. MaxConns /\ accepted \in 0 .. made /\ ioc \in 0 .. made /\ cut \subseteq 1 .. made
  BY TypeParts DEF ThreadsOK
<1>2. \A c \in 1 .. made : c \in Conns
  BY <1>1, USBAssumption, SMTT(20) DEF Conns
<1>3. toPeer \in [Conns -> Seq(Requests)] /\ toDev \in [Conns -> Seq(Messages)]
  BY TypeParts DEF WiresOK
<1> QED BY <1>1, <1>2, <1>3, USBAssumption, SMTT(20)

LEMMA LinksStep ==
    TypeOK /\ LinksOK /\ [Next]_vars => LinksOK'
<1>LinksKept.
      ASSUME LinksOK, UNCHANGED <<made, cut, ioc>>, \A c \in cut : toPeer'[c] = toPeer[c]
      PROVE  LinksOK'
  BY <1>LinksKept DEF LinksOK
<1>WriteKeepsLinks.
      ASSUME TypeOK, LinksOK, UNCHANGED <<made, cut, ioc>>, NEW m, Write(m)
      PROVE  LinksOK'
  <2> USE <1>WriteKeepsLinks
  <2>1. \A c \in cut : c \in Conns
    BY ConnTypes
  <2>2. \A c \in cut : toPeer'[c] = toPeer[c]
    BY <2>1, ConnTypes DEF Write
  <2> QED BY <2>2, <1>LinksKept
<1>LinksStep. TypeOK /\ LinksOK /\ [Next]_vars => LinksOK'
  <2> SUFFICES ASSUME TypeOK, LinksOK, [Next]_vars PROVE LinksOK'
    OBVIOUS
  <2>1. CASE UNCHANGED <<made, cut, ioc, toPeer>>
    BY <2>1 DEF LinksOK
  <2>2. CASE AcceptThread
    BY <2>1, <2>2 DEF AcceptThread, Accept, Open, Attach, Test, Sleep, peerVars
  <2>3. ASSUME NEW c \in Conns, ReadThread(c) PROVE LinksOK'
    BY <2>1, <2>3 DEF ReadThread, ReadEnter, Recv, RecvRest, ReadFail, ReadGot, ReadData, peerVars
  <2>4. CASE BottomHalves
    BY <2>1, <2>4 DEF BottomHalves, CleanupBH, CompletedBH, peerVars
  <2>5. CASE Controller
    <3>1. UNCHANGED <<made, cut, ioc>> /\ (UNCHANGED toPeer \/ \E m : Write(m))
      BY <2>5, Zenon DEF Controller, HandlePacket, CancelPacket, PacketDone,
         CancelDone, HandleReset,
                  peerVars
    <3> QED BY <2>1, <3>1, <1>WriteKeepsLinks
  <2>6. CASE PeerConnect
    <3>1. /\ made' = made + 1 /\ ioc' = made + 1 /\ ioc = 0 /\ UNCHANGED <<cut, toPeer>>
          /\ made \in Nat /\ cut \subseteq 1 .. made
      BY <2>6, ConnTypes DEF PeerConnect
    <3>2. ioc' \notin cut'
      BY <3>1, SMTT(20)
    <3>3. ASSUME NEW c \in 1 .. made' PROVE c = ioc' \/ c \in cut'
      BY <3>1, SMTT(20) DEF LinksOK
    <3> QED BY <3>1, <3>2, <3>3 DEF LinksOK
  <2>7. CASE PeerClosed
    <3>1. /\ cut' = cut \cup {ioc} /\ ioc' = 0 /\ toPeer' = [toPeer EXCEPT ![ioc] = <<>>]
          /\ made' = made /\ made \in Nat /\ cut \subseteq 1 .. made /\ ioc \in 1 .. made
      BY <2>7, ConnTypes, SMT DEF PeerClosed
    <3>2. \A c \in 1 .. made : c \in Conns
      BY ConnTypes
    <3>3. \A c \in cut' : toPeer'[c] = <<>>
      BY <3>1, <3>2, ConnTypes DEF LinksOK
    <3> QED BY <3>1, <3>3, SMTT(20) DEF LinksOK
  <2>8. CASE PeerRead
    <3>1. UNCHANGED <<made, cut, ioc>> /\ toPeer' = [toPeer EXCEPT ![ioc] = Tail(@)]
      BY <2>8, Zenon DEF PeerRead
    <3>2. \A c \in cut : c \in Conns /\ c # ioc
      BY ConnTypes DEF LinksOK
    <3>3. \A c \in cut : toPeer'[c] = toPeer[c]
      BY <3>1, <3>2, ConnTypes
    <3> QED BY <3>1, <3>3, <1>LinksKept
  <2>9. ASSUME NEW p \in Packets, PeerComplete(p) PROVE LinksOK'
    BY <2>1, <2>9 DEF PeerComplete
  <2>10. CASE UNCHANGED vars
    BY <2>1, <2>10 DEF vars, peerVars
  <2> QED BY <2>2, <2>3, <2>4, <2>5, <2>6, <2>7, <2>8, <2>9, <2>10 DEF Next, Peer
<1> QED BY <1>LinksStep

\* Only the accept thread opens a connection or counts one.
LEMMA OnlyOpenOpens ==
    ASSUME TypeOK, Next
    PROVE  /\ closed /\ ~closed' => Open
           /\ accepted' = accepted \/ Accept
           /\ apc' = "opened" => apc = "opened" \/ Accept
<1>1. ASSUME NEW r, Closed(r) PROVE closed => closed'
  BY <1>1, Zenon DEF Closed
<1>2. CASE AcceptThread
  BY <1>2, SMTT(20) DEF AcceptThread, Accept, Open, Attach, Test, Sleep
<1>3. ASSUME NEW c \in Conns, ReadThread(c)
      PROVE  (closed => closed') /\ UNCHANGED <<accepted, apc>>
  <2>1. ASSUME NEW m, NEW hit, NEW g, Apply(c, m, hit, g) PROVE closed => closed'
    BY <1>1, <2>1, Zenon DEF Apply
  <2>2. CASE ReadEnter(c) \/ Recv(c) \/ RecvRest(c)
    BY <2>2, SMT DEF ReadEnter, Recv, RecvRest
  <2>3. CASE ReadFail(c)
    BY <1>1, <2>3 DEF ReadFail
  <2>4. CASE ReadGot(c)
    BY <2>1, <2>4, SMT DEF ReadGot
  <2>5. CASE ReadData(c)
    BY <2>1, <2>5, SMTT(20) DEF ReadData
  <2> QED BY <1>3, <2>2, <2>3, <2>4, <2>5 DEF ReadThread
<1>4. CASE BottomHalves
  BY <1>4, SMT DEF BottomHalves, CleanupBH, CompletedBH
<1>5. CASE Controller
  <2>1. UNCHANGED <<accepted, apc>>
    BY <1>5, Zenon DEF Controller, HandlePacket, CancelPacket, PacketDone, CancelDone,
       HandleReset
  <2>2. closed => closed'
    BY <1>1, <1>5, Zenon DEF Controller, HandlePacket, CancelPacket, PacketDone,
       CancelDone, HandleReset
  <2> QED BY <2>1, <2>2
<1>6. CASE Peer
  <2>1. UNCHANGED <<closed, accepted, apc>>
    BY <1>6, Zenon DEF Peer, PeerConnect, PeerClosed, PeerRead, PeerComplete, devVars
  <2> QED BY <2>1
<1> QED BY <1>2, <1>3, <1>4, <1>5, <1>6 DEF Next

LEMMA OpeningStep ==
    TypeOK /\ OpeningOK /\ [Next]_vars => OpeningOK'
\* Before the first connection is open only the accept thread and the peer's
\* connecting and hanging up can do anything.
<1>FreshSteps.
      ASSUME TypeOK, Fresh, Next
      PROVE  AcceptThread \/ PeerConnect \/ PeerClosed
  <2> USE <1>FreshSteps
  <2>1. ASSUME NEW c \in Conns, ReadThread(c) PROVE FALSE
    <3>1. reader[c].pc = "none"
      BY DEF Fresh, NoReader
    <3> QED BY <2>1, <3>1 DEF ReadThread, ReadEnter, Recv, RecvRest, ReadFail, ReadGot, ReadData
  <2>2. CASE BottomHalves
    BY <2>2, Zenon DEF BottomHalves, CleanupBH, CompletedBH, Fresh
  <2>3. ASSUME NEW p \in Packets, HandlePacket(p) \/ CancelPacket(p) PROVE FALSE
    BY <2>3 DEF HandlePacket, CancelPacket, Fresh
  <2>4. CASE PacketDone \/ CancelDone \/ HandleReset
    BY <2>4, ZenonT(30) DEF PacketDone, CancelDone, HandleReset, Fresh, NoOp
  <2>5. CASE PeerRead
    <3>1. ioc \in Conns
      BY <2>5, ConnTypes, Zenon DEF PeerRead
    <3> QED BY <2>5, <3>1, ZenonT(30) DEF PeerRead, Fresh
  <2>6. ASSUME NEW p \in Packets, PeerComplete(p) PROVE FALSE
    BY <2>6 DEF PeerComplete, Fresh
  <2> QED BY <2>1, <2>2, <2>3, <2>4, <2>5, <2>6 DEF Next, Controller, Peer
<1>FreshKept.
      ASSUME TypeOK, Fresh, Accept \/ Test \/ Sleep \/ PeerConnect \/ PeerClosed \/ UNCHANGED vars
      PROVE  Fresh'
  <2> USE <1>FreshKept
  <2>1. CASE Accept \/ Test \/ Sleep \/ PeerConnect \/ UNCHANGED vars
    <3>1. UNCHANGED <<closed, attached, bhs, reader, op, completed, pstate, toPeer, toDev, hqueue>>
      BY <2>1, Zenon DEF Accept, Test, Sleep, PeerConnect, devVars, peerVars, vars
    <3> QED BY <3>1 DEF Fresh
  <2>2. CASE PeerClosed
    <3>1. /\ UNCHANGED <<closed, attached, bhs, reader, op, completed, pstate, toDev, hqueue>>
          /\ toPeer' = [toPeer EXCEPT ![ioc] = <<>>]
      BY <2>2 DEF PeerClosed, devVars, peerVars
    <3>2. toPeer' = [c \in Conns |-> <<>>]
      BY <3>1 DEF Fresh
    <3> QED BY <3>1, <3>2 DEF Fresh
  <2> QED BY <2>1, <2>2
\* A step of anyone else that does not close the connection leaves the accept
\* thread where it is.
<1>OthersKeepApart.
      ASSUME TypeOK, Next, ~AcceptThread, OnlyConnection, ~closed'
      PROVE  /\ UNCHANGED <<accepted, fd, apc, attached>>
             /\ "cleanup" \notin bhs'
             /\ \A c \in Conns : c # 1 \/ apc = "attach" => reader'[c] = NoReader
  <2> USE <1>OthersKeepApart
  <2>0. /\ fd = 1 /\ "cleanup" \notin bhs
        /\ \A c \in Conns : c # 1 \/ apc = "attach" => reader[c] = NoReader
    BY DEF OnlyConnection
  <2>1. ASSUME NEW r, Closed(r) PROVE closed' = TRUE
    BY <2>0, <2>1, SMTT(20) DEF Closed
  <2>2. ASSUME NEW c \in Conns, ReadThread(c)
        PROVE  /\ UNCHANGED <<accepted, fd, apc, attached>>
               /\ "cleanup" \notin bhs'
               /\ \A d \in Conns : d # 1 \/ apc = "attach" => reader'[d] = NoReader
    <3>1. reader[c].pc # "none"
      BY <2>2 DEF ReadThread, ReadEnter, Recv, RecvRest, ReadFail, ReadGot, ReadData
    <3>2. c = 1 /\ apc # "attach"
      BY <2>0, <3>1, SMTT(20) DEF NoReader
    <3>3. UNCHANGED <<accepted, fd, apc, attached>>
      BY <2>2 DEF ReadThread, ReadEnter, Recv, RecvRest, ReadFail, ReadGot, ReadData
    <3>4. UNCHANGED closed /\ (bhs' = bhs \/ bhs' = bhs \cup {"completed"})
      <4>1. ASSUME NEW m, NEW hit, NEW g, Apply(c, m, hit, g)
            PROVE  UNCHANGED closed /\ (bhs' = bhs \/ bhs' = bhs \cup {"completed"})
        BY <2>1, <4>1, Zenon DEF Apply
      <4>2. CASE ReadEnter(c) \/ Recv(c) \/ RecvRest(c)
        BY <4>2 DEF ReadEnter, Recv, RecvRest
      <4>3. CASE ReadFail(c)
        BY <2>1, <4>3, Zenon DEF ReadFail
      <4>4. CASE ReadGot(c)
        BY <4>1, <4>4 DEF ReadGot
      <4>5. CASE ReadData(c)
        BY <4>1, <4>5 DEF ReadData
      <4> QED BY <2>2, <4>2, <4>3, <4>4, <4>5 DEF ReadThread
    <3>5. \A d \in Conns : d # c => reader'[d] = reader[d]
      <4>1. reader' = reader \/ \E r : reader' = [reader EXCEPT ![c] = r]
        <5>1. ASSUME NEW m, NEW hit, NEW g, Apply(c, m, hit, g)
              PROVE  reader' = reader \/ \E r : reader' = [reader EXCEPT ![c] = r]
          BY <5>1 DEF Apply
        <5>2. CASE ReadEnter(c) \/ ReadFail(c)
          BY <5>2 DEF ReadEnter, ReadFail
        <5>2a. ASSUME RecvElsewhere(c)
               PROVE  reader' = reader \/ \E r : reader' = [reader EXCEPT ![c] = r]
          BY <5>2a DEF RecvElsewhere
        <5>3. CASE Recv(c) \/ RecvRest(c)
          BY <5>2a, <5>3 DEF Recv, RecvRest
        <5>4. CASE ReadGot(c)
          BY <5>1, <5>4 DEF ReadGot
        <5>5. CASE ReadData(c)
          BY <5>1, <5>2a, <5>5 DEF ReadData
        <5> QED BY <2>2, <5>2, <5>3, <5>4, <5>5 DEF ReadThread
      <4>2. reader \in [Conns -> Readers]
        BY TypeParts DEF ThreadsOK
      <4> QED BY <4>1, <4>2
    <3> QED BY <2>0, <3>2, <3>3, <3>4, <3>5
  <2>3. CASE BottomHalves
    <3>1. CompletedBH
      BY <2>0, <2>3 DEF BottomHalves, CleanupBH
    <3> QED BY <2>0, <3>1 DEF CompletedBH
  <2>4. CASE Controller
    <3>1. UNCHANGED <<accepted, fd, apc, attached, reader>>
      BY <2>4, ZenonT(30) DEF Controller, HandlePacket, CancelPacket, PacketDone,
         CancelDone, HandleReset
    <3>2. UNCHANGED <<closed, bhs>>
      <4>1. ASSUME NEW p \in Packets, HandlePacket(p) PROVE UNCHANGED <<closed, bhs>>
        BY <2>0, <4>1 DEF HandlePacket
      <4>2. ASSUME NEW p \in Packets, CancelPacket(p) PROVE UNCHANGED <<closed, bhs>>
        BY <2>1, <4>2, Zenon DEF CancelPacket
      <4>3. CASE PacketDone \/ CancelDone
        BY <4>3 DEF PacketDone, CancelDone
      <4>4. CASE HandleReset
        BY <2>1, <4>4, Zenon DEF HandleReset
      <4> QED BY <2>4, <4>1, <4>2, <4>3, <4>4 DEF Controller
    <3> QED BY <2>0, <3>1, <3>2
  <2>5. CASE Peer
    <3>1. UNCHANGED <<closed, accepted, fd, apc, attached, bhs, reader>>
      BY <2>5, Zenon DEF Peer, PeerConnect, PeerClosed, PeerRead, PeerComplete, devVars
    <3> QED BY <2>0, <3>1
  <2> QED BY <2>2, <2>3, <2>4, <2>5 DEF Next
<1>OpeningStep. TypeOK /\ OpeningOK /\ [Next]_vars => OpeningOK'
  <2> SUFFICES ASSUME TypeOK, OpeningOK, [Next]_vars PROVE OpeningOK'
    OBVIOUS
  <2>0. /\ accepted = 0 => Fresh /\ apc = "accept"
        /\ accepted = 1 /\ apc = "opened" => Fresh /\ fd = 1
        /\ accepted = 1 /\ ~closed => OnlyConnection
        /\ accepted \in Nat /\ closed \in BOOLEAN
    <3>1. accepted \in Nat
      BY ConnTypes, SMT
    <3>2. closed \in BOOLEAN
      BY TypeParts DEF FlagsOK
    <3> QED BY <3>1, <3>2 DEF OpeningOK
  <2>1. CASE UNCHANGED vars
    <3>1. UNCHANGED <<accepted, apc, fd, closed, attached, bhs, reader>>
      BY <2>1 DEF vars, devVars
    <3>2. Fresh => Fresh'
      BY <2>1, <1>FreshKept
    <3>3. OnlyConnection => OnlyConnection'
      BY <3>1 DEF OnlyConnection
    <3> QED BY <2>0, <3>1, <3>2, <3>3 DEF OpeningOK
  <2>2. CASE Next
    <3>1. accepted' = 0 => Fresh' /\ apc' = "accept"
      <4> SUFFICES ASSUME accepted' = 0 PROVE Fresh' /\ apc' = "accept"
        OBVIOUS
      <4>1. accepted = 0 /\ ~Accept
        BY <2>0, <2>2, OnlyOpenOpens, SMTT(20) DEF Accept
      <4>2. Fresh /\ apc = "accept"
        BY <2>0, <4>1
      <4>3. PeerConnect \/ PeerClosed
        BY <2>2, <4>1, <4>2, <1>FreshSteps DEF AcceptThread, Open, Attach, Test, Sleep
      <4>4. UNCHANGED apc
        BY <4>3 DEF PeerConnect, PeerClosed, devVars
      <4> QED BY <4>2, <4>3, <4>4, <1>FreshKept
    <3>2. accepted' = 1 /\ apc' = "opened" => Fresh' /\ fd' = 1
      <4> SUFFICES ASSUME accepted' = 1, apc' = "opened" PROVE Fresh' /\ fd' = 1
        OBVIOUS
      <4>1. CASE Accept
        <5>1. accepted = 0 /\ fd' = accepted + 1
          BY <2>0, <4>1, SMT DEF Accept
        <5> QED BY <2>0, <4>1, <5>1, <1>FreshKept, SMTT(20)
      <4>2. CASE ~Accept
        <5>1. accepted = 1 /\ apc = "opened"
          BY <2>2, <4>2, OnlyOpenOpens
        <5>2. Fresh /\ fd = 1
          BY <2>0, <5>1
        <5>3. PeerConnect \/ PeerClosed
          BY <2>2, <4>2, <5>1, <5>2, <1>FreshSteps DEF AcceptThread, Open, Attach,
             Test, Sleep
        <5>4. UNCHANGED fd
          BY <5>3 DEF PeerConnect, PeerClosed, devVars
        <5> QED BY <5>2, <5>3, <5>4, <1>FreshKept
      <4> QED BY <4>1, <4>2
    <3>3. accepted' = 1 /\ ~closed' => OnlyConnection'
      <4> SUFFICES ASSUME accepted' = 1, ~closed' PROVE OnlyConnection'
        OBVIOUS
      <4>1. CASE closed
        <5>1. Open
          BY <2>2, <4>1, OnlyOpenOpens
        <5>2. accepted = 1 /\ apc = "opened"
          BY <5>1 DEF Open
        <5>3. Fresh /\ fd = 1
          BY <2>0, <5>2
        <5> QED BY <5>1, <5>3 DEF Open, Fresh, OnlyConnection
      <4>2. CASE ~closed
        <5>1. ~Accept /\ accepted = 1
          <6>1. CASE Accept
            BY <2>0, <4>2, <6>1, SMT DEF Accept, Fresh, OnlyConnection
          <6> QED BY <2>2, <6>1, OnlyOpenOpens
        <5>2. OnlyConnection
          BY <2>0, <4>2, <5>1
        <5>3. CASE AcceptThread
          <6>1. CASE Open
            BY <5>2, <6>1 DEF Open, OnlyConnection
          <6>2. CASE Attach
            <7>1. ~attached
              BY <5>2, <6>2 DEF Attach, OnlyConnection
            <7>2. /\ reader' = [reader EXCEPT ![1].pc = "enter"] /\ apc' = "test"
                  /\ UNCHANGED <<fd, bhs>>
              BY <5>1, <6>2, <7>1 DEF Attach
            <7>3. \A c \in Conns : c # 1 => reader'[c] = reader[c]
              <8>1. reader \in [Conns -> Readers]
                BY TypeParts DEF ThreadsOK
              <8> QED BY <7>2, <8>1
            <7> QED BY <5>2, <7>2, <7>3 DEF OnlyConnection
          <6>3. CASE Test \/ Sleep
            <7>1. UNCHANGED <<fd, bhs, attached, reader>> /\ apc' \in {"wait", "asleep"} /\ apc # "attach"
              BY <4>2, <6>3 DEF Test, Sleep
            <7> QED BY <5>2, <7>1 DEF OnlyConnection
          <6> QED BY <5>1, <5>3, <6>1, <6>2, <6>3 DEF AcceptThread
        <5>4. CASE ~AcceptThread
          BY <2>2, <5>2, <5>4, <1>OthersKeepApart, SMTT(20) DEF OnlyConnection
        <5> QED BY <5>3, <5>4
      <4> QED BY <4>1, <4>2
    <3> QED BY <3>1, <3>2, <3>3 DEF OpeningOK
  <2> QED BY <2>1, <2>2
<1> QED BY <1>OpeningStep

-----------------------------------------------------------------------------
(* The stream of responses of the first connection.                        *)

LEMMA FirstConn ==
    ASSUME TypeOK
    PROVE  /\ 1 \in Conns /\ toPeer[1] \in Seq(Requests) /\ toDev[1] \in Seq(Messages)
           /\ reader[1] \in Readers /\ reader[1].m \in Messages \cup {NoMsg}
           /\ reader[1].pc \in {"got", "data"} => reader[1].m \in Messages
           /\ NoMsg \notin Messages
<1>1. 1 \in Conns
  BY USBAssumption, SMT DEF Conns
<1>2. toPeer[1] \in Seq(Requests) /\ toDev[1] \in Seq(Messages)
  BY <1>1, TypeParts DEF WiresOK
<1>3. reader[1] \in Readers /\ ReaderOK(reader[1])
  BY <1>1, TypeParts DEF ThreadsOK
<1>4. NoMsg \notin Messages
  BY USBAssumption DEF NoMsg, Messages
<1>5. reader[1].m \in Messages \cup {NoMsg}
  <2> HIDE DEF NoMsg
  <2> QED BY <1>3 DEF Readers
<1> HIDE DEF NoMsg
<1> QED BY <1>1, <1>2, <1>3, <1>4, <1>5 DEF ReaderOK

LEMMA StreamTyped ==
    ASSUME TypeOK
    PROVE  Stream \in Seq(Messages)
<1> HIDE DEF NoMsg
<1>1. CASE reader[1].m = NoMsg
  BY <1>1, FirstConn DEF Stream
<1>2. CASE reader[1].m # NoMsg
  <2>1. reader[1].m \in Messages
    BY <1>2, FirstConn
  <2>2. <<reader[1].m>> \o toDev[1] \in Seq(Messages)
    BY <2>1, FirstConn, ConsEntries
  <2> QED BY <1>2, <2>2 DEF Stream
<1> QED BY <1>1, <1>2

LEMMA StreamSame ==
    ASSUME reader'[1].m = reader[1].m, toDev'[1] = toDev[1]
    PROVE  Stream' = Stream
BY DEF Stream

-----------------------------------------------------------------------------
(* Protocol, step by step.                                                 *)

\* A step that adds nothing about packet p and keeps what its calls wait for.
LEMMA PacketKept ==
    ASSUME NEW p \in Packets, PacketInv(p), pstate'[p] = pstate[p], gen'[p] = gen[p],
           Asked(p)' => Asked(p),
           Recalled(p)' => Recalled(p) /\ (Asked(p) => Asked(p)'),
           Queued(p)' => Queued(p) /\ hqueue'[p] = hqueue[p],
           \A s \in {"async", "nak", "ok"} : Reply(p, s)' => Reply(p, s),
           Listed(p)' => Listed(p), Waiting(p)' <=> Waiting(p), Settled(p)' <=> Settled(p)
    PROVE  PacketInv(p)'
BY ZenonT(30) DEF PacketInv, Ending

\* A step that changes nothing but, perhaps, where the first reader is, and what
\* a peer whose channel is another connection does.
LEMMA ProtocolKept ==
    ASSUME Protocol, UNCHANGED <<pstate, gen, op, completed>>, toPeer'[1] = toPeer[1],
           Stream' = Stream, FirstReader',
           \A p \in Packets : Queued(p)' => Queued(p) /\ hqueue'[p] = hqueue[p]
    PROVE  Protocol'
<1>1. ASSUME NEW p \in Packets PROVE PacketInv(p)'
  <2>1. PacketInv(p)
    BY DEF Protocol
  <2>2. (Asked(p)' <=> Asked(p)) /\ (Recalled(p)' <=> Recalled(p))
    BY ZenonT(30) DEF Asked, Recalled
  <2>3. \A s \in {"async", "nak", "ok"} : Reply(p, s)' => Reply(p, s)
    BY DEF Reply
  <2>4. (Listed(p)' <=> Listed(p)) /\ (Waiting(p)' <=> Waiting(p)) /\ (Settled(p)' <=> Settled(p))
    BY ZenonT(30) DEF Listed, Waiting, Settled
  <2> QED BY <2>1, <2>2, <2>3, <2>4, PacketKept, ZenonT(30)
<1>2. RequestOrder(toPeer'[1]) /\ ReplyOrder(Stream')
  BY ZenonT(30) DEF Protocol
<1>3. RequestsPresent' /\ RepliesPresent' /\ ListPresent'
  BY ZenonT(30) DEF Protocol, RequestsPresent, RepliesPresent, ListPresent
<1> QED BY <1>1, <1>2, <1>3, ZenonT(30) DEF Protocol

\* The state while the first connection is open.
AtWork == TypeOK /\ CallsMatch /\ LinksOK /\ accepted = 1 /\ OnlyConnection /\ Protocol

LEMMA ProtocolStarts ==
    ASSUME TypeOK, Fresh, Open
    PROVE  Protocol'
<1>1. UNCHANGED <<reader, op, pstate, gen, completed, toPeer, toDev, hqueue, ioc>>
  BY DEF Open, peerVars
<1>2. 1 \in Conns
  BY FirstConn
<1>3. /\ toPeer'[1] = <<>> /\ toDev'[1] = <<>> /\ completed' = <<>> /\ reader'[1] = NoReader
      /\ op' = NoOp /\ \A p \in Packets : pstate'[p] = "free" /\ hqueue'[p] = <<>>
  BY <1>1, <1>2 DEF Fresh
<1>4. reader'[1].m = NoMsg /\ reader'[1].pc = "none"
  BY <1>3, SMTT(20) DEF NoReader
<1>5. Stream' = <<>>
  BY <1>3, <1>4 DEF Stream
<1>6. ASSUME NEW p \in Packets PROVE PacketInv(p)'
  <2>1. ~Asked(p)' /\ ~Recalled(p)' /\ ~Listed(p)' /\ ~Queued(p)'
    BY <1>3, SMTT(20) DEF Asked, Recalled, Sent, Listed, Queued
  <2>2. ~Reply(p, "async")' /\ ~Reply(p, "nak")' /\ ~Reply(p, "ok")'
    BY <1>5, SMTT(20) DEF Reply, Answered
  <2> QED BY <1>3, <2>1, <2>2, Zenon DEF PacketInv, Ending
<1>7. RequestOrder(toPeer'[1]) /\ ReplyOrder(Stream')
  BY <1>3, <1>5, SMTT(20) DEF RequestOrder, ReplyOrder
<1>8. RequestsPresent' /\ RepliesPresent' /\ ListPresent'
  BY <1>3, <1>5, SMTT(20) DEF RequestsPresent, RepliesPresent, ListPresent
<1>9. FirstReader'
  <2> HIDE DEF NoMsg
  <2> QED BY <1>4 DEF FirstReader
<1> QED BY <1>6, <1>7, <1>8, <1>9 DEF Protocol

LEMMA AcceptThreadProtocol ==
    ASSUME AtWork, AcceptThread
    PROVE  Protocol'
<1>1. CASE Accept \/ Open
  BY <1>1 DEF AtWork, OnlyConnection, Accept, Open
<1>2. CASE Attach \/ Test \/ Sleep
  <2>1. /\ UNCHANGED <<pstate, gen, op, completed, toPeer, toDev, hqueue, ioc>>
        /\ \/ UNCHANGED reader
           \/ apc = "attach" /\ reader' = [reader EXCEPT ![1].pc = "enter"]
    BY <1>2 DEF Attach, Test, Sleep, peerVars, AtWork
  <2>2. reader'[1].m = reader[1].m /\ FirstReader'
    <3>1. CASE UNCHANGED reader
      BY <2>1, <3>1 DEF AtWork, Protocol, FirstReader
    <3>2. CASE apc = "attach" /\ reader' = [reader EXCEPT ![1].pc = "enter"]
      <4>1. reader \in [Conns -> Readers] /\ 1 \in Conns
        BY TypeParts, FirstConn DEF AtWork, ThreadsOK
      <4>2. reader[1].m = NoMsg
        BY <3>2, <4>1, SMT DEF AtWork, OnlyConnection, NoReader
      <4>3. reader'[1].m = reader[1].m /\ reader'[1].pc = "enter"
        BY <3>2, <4>1, SMT DEF Readers
      <4> HIDE DEF NoMsg
      <4> QED BY <4>2, <4>3 DEF FirstReader
    <3> QED BY <2>1, <3>1, <3>2
  <2>3. Stream' = Stream
    BY <2>1, <2>2, StreamSame
  <2>4. \A p \in Packets : Queued(p)' => Queued(p) /\ hqueue'[p] = hqueue[p]
    BY <2>1 DEF Queued
  <2> QED BY <2>1, <2>2, <2>3, <2>4, ProtocolKept DEF AtWork
<1> QED BY <1>1, <1>2 DEF AcceptThread

LEMMA ReadThreadProtocol ==
    \A c \in Conns :
        AtWork /\ ReadThread(c) /\ ~closed' /\ fate' = "fine" => Protocol'
<1>ConsTail.
      ASSUME NEW S, NEW q \in Seq(S), q # <<>>
      PROVE  <<Head(q)>> \o Tail(q) = q
  <2> USE <1>ConsTail
  <2>1. PICK h, t : h = Head(q) /\ t = Tail(q)
    BY Zenon
  <2>2. h \in S /\ t \in Seq(S) /\ Len(t) = Len(q) - 1 /\ q[1] = h /\ \A i \in 1 .. Len(t) : t[i] = q[i + 1]
    BY <2>1, TailEntries
  <2>3. <<h>> \in Seq(S) /\ Len(<<h>>) = 1 /\ <<h>>[1] = h
    BY <2>2, SMTT(20)
  <2> DEFINE c == <<h>> \o t
  <2>4. c \in Seq(S) /\ Len(c) = Len(t) + 1 /\ c[1] = h /\ \A i \in 1 .. Len(t) : c[i + 1] = t[i]
    BY <2>2, <2>3, SMTT(20)
  <2> HIDE DEF c
  <2>5. Len(c) = Len(q) /\ Len(q) \in Nat
    BY <2>2, <2>4, SMT
  <2>6. ASSUME NEW i \in 1 .. Len(q) PROVE c[i] = q[i]
    <3>1. CASE i = 1
      BY <2>2, <2>4, <3>1
    <3>2. CASE i # 1
      <4>1. i - 1 \in 1 .. Len(t) /\ (i - 1) + 1 = i
        BY <2>2, <2>5, <3>2, SMTT(20)
      <4>2. c[(i - 1) + 1] = t[i - 1] /\ t[i - 1] = q[(i - 1) + 1]
        BY <2>2, <2>4, <4>1
      <4> QED BY <4>1, <4>2
    <3> QED BY <3>1, <3>2
  <2>7. c = q
    BY <2>4, <2>5, <2>6, SMT
  <2> QED BY <2>1, <2>7 DEF c
\* A response that the read thread takes from the socket stays in the stream,
\* and leaves it when it is done with.
<1>StreamRecv.
      ASSUME TypeOK, reader[1].m = NoMsg, toDev[1] # <<>>,
             reader'[1].m = Head(toDev[1]), toDev'[1] = Tail(toDev[1])
      PROVE  Stream' = Stream
  <2> USE <1>StreamRecv
  <2> HIDE DEF NoMsg
  <2>1. Head(toDev[1]) \in Messages
    BY FirstConn, SMTT(20)
  <2>2. Stream' = <<Head(toDev[1])>> \o Tail(toDev[1])
    BY <2>1, FirstConn DEF Stream
  <2>3. <<Head(toDev[1])>> \o Tail(toDev[1]) = toDev[1]
    BY FirstConn, <1>ConsTail
  <2> QED BY <2>2, <2>3, Zenon DEF Stream
<1>ReplyOrderTail.
      ASSUME NEW q \in Seq(Messages), q # <<>>, ReplyOrder(q)
      PROVE  /\ ReplyOrder(Tail(q))
             /\ \A s : Answered(Tail(q), Head(q).p, s) => Head(q).status = "async" /\ s = "ok"
  <2> USE <1>ReplyOrderTail
  <2>1. PICK h, t : h = Head(q) /\ t = Tail(q)
    BY Zenon
  <2>2. /\ Len(q) \in Nat /\ Len(q) >= 1 /\ Len(t) = Len(q) - 1 /\ q[1] = h
        /\ \A i \in 1 .. Len(t) : t[i] = q[i + 1]
    BY <2>1, TailEntries
  <2>3. ReplyOrder(t)
    <3> SUFFICES ASSUME NEW i \in 1 .. Len(t), NEW j \in 1 .. Len(t), i < j, t[i].p = t[j].p
                 PROVE  t[i].status = "async" /\ t[j].status = "ok"
      BY DEF ReplyOrder
    <3>1. i + 1 \in 1 .. Len(q) /\ j + 1 \in 1 .. Len(q) /\ i + 1 < j + 1
      BY <2>2, SMTT(20)
    <3>2. t[i] = q[i + 1] /\ t[j] = q[j + 1]
      BY <2>2
    <3> QED BY <3>1, <3>2 DEF ReplyOrder
  <2>4. ASSUME NEW s, Answered(t, h.p, s) PROVE h.status = "async" /\ s = "ok"
    <3>1. PICK i \in 1 .. Len(t) : t[i].p = h.p /\ t[i].status = s
      BY <2>4 DEF Answered
    <3>2. 1 \in 1 .. Len(q) /\ i + 1 \in 1 .. Len(q) /\ 1 < i + 1 /\ q[i + 1] = t[i]
      BY <2>2, SMTT(20)
    <3> QED BY <2>2, <3>1, <3>2 DEF ReplyOrder
  <2> QED BY <2>1, <2>3, <2>4
<1>StreamDrop.
      ASSUME TypeOK, reader[1].m \in Messages, reader'[1].m = NoMsg, toDev'[1] = toDev[1]
      PROVE  Stream # <<>> /\ Head(Stream) = reader[1].m /\ Stream' = Tail(Stream)
  <2> USE <1>StreamDrop
  <2> HIDE DEF NoMsg
  <2>1. Stream = <<reader[1].m>> \o toDev[1]
    BY FirstConn DEF Stream
  <2>2. Stream' = toDev[1]
    BY DEF Stream
  <2> QED BY <2>1, <2>2, FirstConn, ConsEntries, SMTT(20)
\* The response that the read thread holds leaves the stream.
<1>ReplyTaken.
      ASSUME AtWork, NEW m \in Messages, m = reader[1].m, reader'[1].m = NoMsg,
             toDev'[1] = toDev[1], UNCHANGED gen
      PROVE  /\ ReplyOrder(Stream') /\ RepliesPresent'
             /\ \A q, s : Reply(q, s) <=> Reply(q, s)' \/ (m.p = q /\ m.status = s)
             /\ \A s : Reply(m.p, s)' => m.status = "async" /\ s = "ok"
  <2> USE <1>ReplyTaken
  <2> HIDE DEF NoMsg
  <2>1. PICK s, t : s = Stream /\ t = Stream'
    OBVIOUS
  <2>2. ReplyOrder(s) /\ \A i \in 1 .. Len(s) : s[i].g = gen[s[i].p]
    BY <2>1, Zenon DEF AtWork, Protocol, RepliesPresent
  <2>3. s \in Seq(Messages) /\ s # <<>> /\ Head(s) = m /\ t = Tail(s)
    BY <2>1, StreamTyped, <1>StreamDrop DEF AtWork
  <2>4. ReplyOrder(t) /\ \A u : Answered(t, m.p, u) => m.status = "async" /\ u = "ok"
    <3>1. /\ ReplyOrder(Tail(s))
          /\ \A u : Answered(Tail(s), Head(s).p, u) => Head(s).status = "async" /\ u = "ok"
      BY <2>2, <2>3, <1>ReplyOrderTail, Zenon
    <3> QED BY <2>3, <3>1
  <2>5. \A q, u : Answered(s, q, u) <=> Answered(t, q, u) \/ (m.p = q /\ m.status = u)
    BY <2>3, AnsweredTail, SMTT(20)
  <2>6. \A i \in 1 .. Len(t) : t[i].g = gen[t[i].p]
    <3>1. Len(t) = Len(s) - 1 /\ Len(s) \in Nat /\ \A i \in 1 .. Len(t) : t[i] = s[i + 1]
      BY <2>3, TailEntries
    <3> QED BY <2>2, <3>1, SMTT(20)
  <2> QED BY <2>1, <2>4, <2>5, <2>6, Zenon DEF Reply, RepliesPresent
\* A packet is put on the completed queue.
<1>PacketListed.
      ASSUME NEW p \in Packets, PacketInv(p), pstate'[p] = pstate[p], pstate[p] = "async",
             Asked(p)' <=> Asked(p), Recalled(p)' <=> Recalled(p),
             Queued(p)' <=> Queued(p), ~Settled(p)',
             Reply(p, "ok"), ~Reply(p, "async")', ~Reply(p, "nak")', ~Reply(p, "ok")'
      PROVE  PacketInv(p)'
  BY <1>PacketListed, ZenonT(30) DEF PacketInv, Ending
\* The call that packet p is in gets its answer.
<1>PacketAnswered.
      ASSUME NEW p \in Packets, PacketInv(p), pstate'[p] = pstate[p], gen'[p] = gen[p],
             hqueue'[p] = hqueue[p],
             Asked(p)' <=> Asked(p), Recalled(p)' <=> Recalled(p), Queued(p)' <=> Queued(p),
             Listed(p)' <=> Listed(p), ~Waiting(p)',
             NEW s \in {"async", "nak", "ok"}, Reply(p, s),
             Settled(p)' => pstate[p] = "canceled" \/ s # "async",
             ~Reply(p, "async")', ~Reply(p, "nak")',
             Reply(p, "ok")' => s = "async" /\ Reply(p, "ok")
      PROVE  PacketInv(p)'
  BY <1>PacketAnswered, Zenon DEF PacketInv, Ending
\* What the read thread does with the response it holds, if it neither closes the
\* connection nor uses a freed packet.
<1>ApplyEffect.
      ASSUME AtWork, NEW m \in Messages, NEW hit, NEW g, Apply(1, m, hit, g),
             hit = "queue" /\ gen[m.p] = g => pstate[m.p] # "setup",
             ~closed', fate' = "fine"
      PROVE  /\ reader'[1].m = NoMsg /\ reader'[1].pc \in {"done", "enter"}
             /\ \/ UNCHANGED <<op, completed>>
                \/ /\ op.kind # "none" /\ op.p = m.p
                   /\ op' = [op EXCEPT !.handled = TRUE, !.status = m.status]
                   /\ UNCHANGED completed
                \/ /\ m.status = "ok" /\ pstate[m.p] = "async" /\ gen[m.p] = g
                   /\ completed' = Append(completed, [p |-> m.p, g |-> g])
                   /\ UNCHANGED op
  <2> USE <1>ApplyEffect
  <2>0. TypeOK /\ fd = 1
    BY DEF AtWork, OnlyConnection
  <2>1. ASSUME Closed(op) PROVE FALSE
    BY <2>0, <2>1, SMTT(20) DEF Closed
  <2>2. \E s \in {"done", "enter"} : reader' = [reader EXCEPT ![1] = [NoReader EXCEPT !.pc = s]]
    BY <2>1 DEF Apply
  <2>3. reader'[1].m = NoMsg /\ reader'[1].pc \in {"done", "enter"}
    <3>1. reader \in [Conns -> Readers] /\ 1 \in Conns
      BY <2>0, TypeParts, FirstConn, Zenon DEF ThreadsOK
    <3>2. \A s : [NoReader EXCEPT !.pc = s].m = NoMsg /\ [NoReader EXCEPT !.pc = s].pc = s
      BY DEF NoReader
    <3> HIDE DEF NoReader, NoMsg
    <3> QED BY <2>2, <3>1, <3>2, SMT
  <2>4. m.p \in Packets /\ m.status \in {"async", "nak", "ok"}
    BY DEF Messages
  <2>5. pstate[m.p] \in {"free", "setup", "async", "canceled"}
    BY <2>0, <2>4, TypeParts DEF PacketsOK
  <2>6. CASE hit = "none"
    BY <2>3, <2>6 DEF Apply
  <2>7. CASE hit # "none"
    <3>1. /\ Live([p |-> m.p, g |-> g]) /\ ~(hit # "queue" /\ ~(op.kind = hit /\ op.p = m.p))
          /\ ~(pstate[m.p] = "async" /\ m.status \in {"nak", "async"})
      BY <2>1, <2>7 DEF Apply
    <3>2. gen[m.p] = g /\ pstate[m.p] # "free"
      BY <3>1, Zenon DEF Live
    <3>3. CASE hit # "queue"
      <4>1. op' = [op EXCEPT !.handled = TRUE, !.status = m.status] /\ UNCHANGED completed
        BY <2>7, <3>1, <3>3 DEF Apply
      <4> QED BY <2>3, <2>7, <3>1, <3>3, <4>1
    <3>4. CASE hit = "queue"
      <4>1. /\ UNCHANGED op
            /\ \/ pstate[m.p] = "canceled" /\ UNCHANGED completed
               \/ pstate[m.p] # "canceled" /\ completed' = Append(completed, [p |-> m.p, g |-> g])
        BY <2>7, <3>1, <3>4 DEF Apply
      <4>2. pstate[m.p] \in {"async", "canceled"} /\ (pstate[m.p] = "async" => m.status = "ok")
        BY <2>4, <2>5, <3>1, <3>2, <3>4, ZenonT(30)
      <4> QED BY <2>3, <3>2, <4>1, <4>2
    <3> QED BY <3>3, <3>4
  <2> QED BY <2>6, <2>7
\* The completed queue grows by the present submission of a packet.
<1>ListAppended.
      ASSUME AtWork, NEW p \in Packets, NEW g, gen[p] = g, UNCHANGED gen,
             completed' = Append(completed, [p |-> p, g |-> g])
      PROVE  ListPresent' /\ \A q : Listed(q)' => Listed(q) \/ q = p
  <2> USE <1>ListAppended
  <2>1. PICK c, r : c = completed' /\ r = [p |-> p, g |-> g]
    OBVIOUS
  <2>2. r.p = p /\ r.g = g
    BY <2>1
  <2>3. completed \in Seq([p : Packets, g : Nat]) /\ r \in [p : Packets, g : Nat]
    BY <2>1, TypeParts DEF AtWork, PacketsOK
  <2>4. /\ Len(completed) \in Nat /\ Len(c) = Len(completed) + 1 /\ c[Len(completed) + 1] = r
        /\ \A i \in 1 .. Len(completed) : c[i] = completed[i]
    BY <2>1, <2>3, AppendEntries, SMTT(20)
  <2>5. \A i \in 1 .. Len(c) : c[i] = r \/ \E j \in 1 .. Len(completed) : c[i] = completed[j]
    BY <2>4, SMTT(20)
  <2>6. ListPresent
    BY DEF AtWork, Protocol
  <2>7. \A i \in 1 .. Len(c) : c[i].g = gen[c[i].p]
    BY <2>2, <2>5, <2>6 DEF ListPresent
  <2>8. \A q : Listed(q)' => Listed(q) \/ q = p
    BY <2>1, <2>2, <2>5, SMT DEF Listed
  <2> QED BY <2>1, <2>7, <2>8, Zenon DEF ListPresent
<1>ApplyProtocol.
      ASSUME AtWork, NEW m \in Messages, m = reader[1].m, NEW hit, NEW g, Apply(1, m, hit, g),
             hit = "queue" /\ gen[m.p] = g => pstate[m.p] # "setup",
             UNCHANGED <<pstate, gen, toPeer, toDev, ioc, hqueue>>, ~closed', fate' = "fine"
      PROVE  Protocol'
  <2> USE <1>ApplyProtocol
  <2>0. TypeOK /\ CallsMatch /\ Protocol
    BY DEF AtWork
  <2>1. PICK p \in Packets, s \in {"async", "nak", "ok"} : p = m.p /\ s = m.status
    BY DEF Messages
  <2>2. /\ reader'[1].m = NoMsg /\ reader'[1].pc \in {"done", "enter"}
        /\ \/ UNCHANGED <<op, completed>>
           \/ /\ op.kind # "none" /\ op.p = p
              /\ op' = [op EXCEPT !.handled = TRUE, !.status = s]
              /\ UNCHANGED completed
           \/ /\ s = "ok" /\ pstate[p] = "async" /\ gen[p] = g
              /\ completed' = Append(completed, [p |-> p, g |-> g])
              /\ UNCHANGED op
    <3> HIDE DEF NoMsg
    <3>1. /\ reader'[1].m = NoMsg /\ reader'[1].pc \in {"done", "enter"}
          /\ \/ UNCHANGED <<op, completed>>
             \/ /\ op.kind # "none" /\ op.p = m.p
                /\ op' = [op EXCEPT !.handled = TRUE, !.status = m.status]
                /\ UNCHANGED completed
             \/ /\ m.status = "ok" /\ pstate[m.p] = "async" /\ gen[m.p] = g
                /\ completed' = Append(completed, [p |-> m.p, g |-> g])
                /\ UNCHANGED op
      BY <1>ApplyEffect, ZenonT(30)
    <3> QED BY <2>1, <3>1
  <2>3. /\ ReplyOrder(Stream') /\ RepliesPresent'
        /\ \A q, u : Reply(q, u) <=> Reply(q, u)' \/ (p = q /\ s = u)
        /\ \A u : Reply(p, u)' => s = "async" /\ u = "ok"
    <3> HIDE DEF NoMsg
    <3>1. /\ ReplyOrder(Stream') /\ RepliesPresent'
          /\ \A q, u : Reply(q, u) <=> Reply(q, u)' \/ (m.p = q /\ m.status = u)
          /\ \A u : Reply(m.p, u)' => m.status = "async" /\ u = "ok"
      <4>1. toDev'[1] = toDev[1] /\ UNCHANGED gen
        OBVIOUS
      <4> QED BY <2>2, <4>1, <1>ReplyTaken
    <3> QED BY <2>1, <3>1, Zenon
  <2>4. FirstReader'
    <3> HIDE DEF NoMsg
    <3> QED BY <2>2 DEF FirstReader
  <2>5. RequestOrder(toPeer'[1]) /\ RequestsPresent'
    BY <2>0, Zenon DEF Protocol, RequestsPresent
  <2>6. op \in Calls
    BY <2>0, TypeParts DEF PacketsOK
  <2>7. ListPresent' /\ \A q : Listed(q)' => Listed(q) \/ (q = p /\ s = "ok" /\ pstate[p] = "async" /\ UNCHANGED op)
    <3>1. CASE UNCHANGED completed
      BY <2>0, <3>1, Zenon DEF Protocol, Listed, ListPresent
    <3>2. CASE ~UNCHANGED completed
      BY <2>2, <3>2, <1>ListAppended
    <3> QED BY <3>1, <3>2
  <2>8. ASSUME NEW q \in Packets PROVE PacketInv(q)'
    <3>1. PacketInv(q) /\ pstate'[q] = pstate[q] /\ gen'[q] = gen[q]
      BY <2>0 DEF Protocol
    <3>2. /\ Asked(q)' <=> Asked(q)
          /\ Recalled(q)' <=> Recalled(q)
          /\ Queued(q)' <=> Queued(q)
          /\ hqueue'[q] = hqueue[q]
      BY ZenonT(30) DEF Asked, Recalled, Queued
    <3>3. \A u \in {"async", "nak", "ok"} : Reply(q, u)' => Reply(q, u)
      BY <2>3, ZenonT(30)
    <3>4. CASE UNCHANGED op
      <4>1. (Waiting(q)' <=> Waiting(q)) /\ (Settled(q)' <=> Settled(q))
        BY <3>4 DEF Waiting, Settled
      <4>2. CASE Listed(q)' => Listed(q)
        BY <3>1, <3>2, <3>3, <4>1, <4>2, PacketKept, ZenonT(30)
      <4>3. CASE Listed(q)' /\ ~Listed(q)
        <5>1. q = p /\ pstate[p] = "async" /\ s = "ok"
          BY <2>7, <4>3, ZenonT(30)
        <5>2. Reply(p, "ok") /\ ~Reply(p, "async")' /\ ~Reply(p, "nak")' /\ ~Reply(p, "ok")'
          BY <2>3, <5>1, ZenonT(30)
        <5>3. ~Settled(q)
          BY <2>0, <2>6, <5>1, ZenonT(30) DEF Settled, CallsMatch, Calls
        <5> QED BY <3>1, <3>2, <4>1, <5>1, <5>2, <5>3, <1>PacketListed, ZenonT(30)
      <4> QED BY <4>2, <4>3
    <3>5. CASE /\ op.kind # "none" /\ op.p = p
               /\ op' = [op EXCEPT !.handled = TRUE, !.status = s]
               /\ UNCHANGED completed
      <4>1. op'.kind = op.kind /\ op'.p = op.p /\ op'.handled = TRUE /\ op'.status = s
        BY <2>6, <3>5 DEF Calls
      <4>2. Listed(q)' <=> Listed(q)
        BY <3>5 DEF Listed
      <4>3. CASE q # p
        <5>1. (Waiting(q)' <=> Waiting(q)) /\ (Settled(q)' <=> Settled(q))
          BY <3>5, <4>1, <4>3 DEF Waiting, Settled
        <5> QED BY <3>1, <3>2, <3>3, <4>2, <5>1, PacketKept, Zenon
      <4>4. CASE q = p
        <5>1. ~Waiting(p)' /\ (Settled(p)' => (op.kind = "packet" => s # "async"))
          BY <4>1, Zenon DEF Waiting, Settled
        <5>2. op.kind = "packet" \/ pstate[p] = "canceled"
          BY <2>0, <2>6, <3>5 DEF CallsMatch, Calls
        <5>3. Reply(p, s) /\ ~Reply(p, "async")' /\ ~Reply(p, "nak")'
              /\ (Reply(p, "ok")' => s = "async" /\ Reply(p, "ok"))
          BY <2>3, SMTT(20)
        <5> QED BY <3>1, <3>2, <4>2, <4>4, <5>1, <5>2, <5>3, <1>PacketAnswered, ZenonT(30)
      <4> QED BY <4>3, <4>4
    <3> QED BY <2>2, <3>4, <3>5
  <2> QED BY <2>3, <2>4, <2>5, <2>7, <2>8, ZenonT(30) DEF Protocol
<1>ReadThreadProtocol.
      ASSUME AtWork, NEW c \in Conns, ReadThread(c), ~closed', fate' = "fine"
      PROVE  Protocol'
  <2> USE <1>ReadThreadProtocol
  <2>0. TypeOK /\ CallsMatch /\ Protocol /\ fd = 1 /\ FirstReader
    BY DEF AtWork, OnlyConnection, Protocol
  <2>1. c = 1
    <3>1. reader[c].pc # "none"
      BY DEF ReadThread, ReadEnter, Recv, RecvRest, ReadFail, ReadGot, ReadData
    <3> QED BY <3>1, SMTT(20) DEF AtWork, OnlyConnection, NoReader
  <2>2. /\ reader \in [Conns -> Readers] /\ reader[1] \in Readers /\ 1 \in Conns
        /\ reader[1].pc \in {"got", "data"} => reader[1].m \in Messages
    BY <2>0, TypeParts, FirstConn DEF ThreadsOK
  <2>3. ASSUME UNCHANGED <<pstate, gen, op, completed, toPeer, ioc, hqueue>>,
               Stream' = Stream, FirstReader'
        PROVE  Protocol'
    <3>1. \A p \in Packets : Queued(p)' => Queued(p) /\ hqueue'[p] = hqueue[p]
      BY <2>3 DEF Queued
    <3> QED BY <2>0, <2>3, <3>1, ProtocolKept
  <2>4. CASE ReadEnter(1)
    <3>1. /\ UNCHANGED <<pstate, gen, op, completed, toPeer, ioc, hqueue, toDev>>
          /\ reader' = [reader EXCEPT ![1] = [NoReader EXCEPT !.pc = "recv", !.on = 1]]
          /\ reader[1].pc = "enter"
      BY <2>0, <2>4, SMT DEF ReadEnter, peerVars
    <3>2. reader'[1] = [NoReader EXCEPT !.pc = "recv", !.on = 1]
      BY <2>2, <3>1
    <3>3. reader'[1].m = NoMsg /\ reader'[1].pc = "recv" /\ reader'[1].on = 1
      BY <3>2 DEF NoReader
    <3> HIDE DEF NoMsg
    <3>4. reader[1].m = NoMsg
      BY <2>0, <3>1 DEF FirstReader
    <3>5. Stream' = Stream
      BY <3>1, <3>3, <3>4, StreamSame
    <3>6. FirstReader'
      BY <3>3 DEF FirstReader
    <3> QED BY <2>3, <3>1, <3>5, <3>6
  <2>4a. reader[1].pc \in {"head", "data"} => ~RecvElsewhere(1)
    BY <2>0 DEF FirstReader, RecvElsewhere
  <2>5. ASSUME NEW pc \in {"head", "fail"}, reader' = [reader EXCEPT ![1].pc = pc],
               reader[1].pc = "recv",
               UNCHANGED <<pstate, gen, op, completed, toPeer, ioc, hqueue, toDev>>
        PROVE  Protocol'
    <3> HIDE DEF NoMsg
    <3>0. reader[1].on = 1 /\ reader[1].m = NoMsg
      BY <2>0, <2>5 DEF FirstReader
    <3>1. reader'[1].pc = pc /\ reader'[1].m = NoMsg /\ reader'[1].on = 1
      BY <2>2, <2>5, <3>0 DEF Readers
    <3>2. FirstReader'
      BY <3>1 DEF FirstReader
    <3> QED BY <2>3, <2>5, <3>0, <3>1, <3>2, StreamSame
  <2>5a. CASE Recv(1)
    <3>1. fate = "fine"
      BY <2>5a DEF Recv, Running
    <3>2. PICK pc \in {"head", "fail"} : reader' = [reader EXCEPT ![1].pc = pc]
      BY <2>5a, <3>1 DEF Recv
    <3>3. /\ UNCHANGED <<pstate, gen, op, completed, toPeer, ioc, hqueue, toDev>>
          /\ reader[1].pc = "recv"
      BY <2>5a DEF Recv, peerVars
    <3> QED BY <2>5, <3>2, <3>3
  <2>5b. CASE RecvRest(1)
    <3> HIDE DEF NoMsg
    <3>0. reader[1].pc = "head" /\ reader[1].on = 1 /\ reader[1].m = NoMsg
      BY <2>0, <2>5b DEF RecvRest, FirstReader
    <3>1. UNCHANGED <<pstate, gen, op, completed, toPeer, ioc, hqueue>>
      BY <2>5b DEF RecvRest, peerVars
    <3>2. /\ toDev[1] # <<>>
          /\ reader' = [reader EXCEPT ![1].pc = "got", ![1].m = Head(toDev[1])]
          /\ toDev' = [toDev EXCEPT ![1] = Tail(@)]
      BY <2>4a, <2>5b, <3>0 DEF RecvRest
    <3>3. reader'[1].pc = "got" /\ reader'[1].m = Head(toDev[1]) /\ reader'[1].on = 1
      BY <2>2, <3>0, <3>2 DEF Readers
    <3>4. toDev'[1] = Tail(toDev[1])
      BY <2>0, <2>2, <3>2, ConnTypes
    <3>5. Stream' = Stream
      BY <2>0, <3>0, <3>2, <3>3, <3>4, <1>StreamRecv
    <3>6. FirstReader'
      BY <3>3 DEF FirstReader
    <3> QED BY <2>3, <3>1, <3>5, <3>6
  <2>6. CASE ReadFail(1)
    BY <2>0, <2>6, SMTT(20) DEF ReadFail, Closed
  <2>7. CASE ReadGot(1)
    <3>1. /\ UNCHANGED <<pstate, gen, toPeer, toDev, ioc, hqueue>> /\ reader[1].pc = "got"
          /\ \/ Apply(1, reader[1].m, HitOf(reader[1].m), gen[reader[1].m.p])
             \/ /\ reader[1].m.status = "ok"
                /\ reader' = [reader EXCEPT ![1].pc = "data", ![1].hit = HitOf(reader[1].m),
                                            ![1].g = gen[reader[1].m.p]]
                /\ UNCHANGED <<op, completed>>
      BY <2>7 DEF ReadGot, peerVars
    <3>2. PICK m \in Messages : m = reader[1].m
      BY <2>2, <3>1
    <3>3. m.p \in Packets
      BY DEF Messages
    <3>4. HitOf(m) = "queue" => pstate[m.p] # "setup"
      BY <2>0, <3>3, TypeParts DEF HitOf, PacketsOK, Calls
    <3>5. CASE Apply(1, m, HitOf(m), gen[m.p])
      BY <3>1, <3>2, <3>4, <3>5, <1>ApplyProtocol
    <3>6. CASE /\ m.status = "ok" /\ UNCHANGED <<op, completed>>
               /\ reader' = [reader EXCEPT ![1].pc = "data", ![1].hit = HitOf(m), ![1].g = gen[m.p]]
      <4>1. /\ reader'[1].pc = "data" /\ reader'[1].m = m /\ reader'[1].on = reader[1].on
            /\ reader'[1].hit = HitOf(m)
        BY <2>2, <3>2, <3>6 DEF Readers
      <4>2. Stream' = Stream
        BY <3>1, <3>2, <4>1, StreamSame
      <4>3. reader[1].on = 1
        BY <2>0, <3>1 DEF FirstReader
      <4> HIDE DEF NoMsg
      <4>4. FirstReader'
        BY <3>1, <3>4, <3>6, <4>1, <4>3 DEF FirstReader
      <4> QED BY <2>3, <3>1, <3>6, <4>2, <4>4
    <3> QED BY <3>1, <3>2, <3>5, <3>6
  <2>8. CASE ReadData(1)
    <3>1. /\ UNCHANGED <<pstate, gen, toPeer, toDev, ioc, hqueue>> /\ reader[1].pc = "data"
          /\ \/ Apply(1, reader[1].m, reader[1].hit, reader[1].g)
             \/ reader' = [reader EXCEPT ![1].pc = "fail"] /\ UNCHANGED <<op, completed>>
      BY <2>4a, <2>8 DEF ReadData, peerVars
    <3>2. CASE Apply(1, reader[1].m, reader[1].hit, reader[1].g)
      <4>1. PICK m, hit, g : m \in Messages /\ m = reader[1].m /\ hit = reader[1].hit /\ g = reader[1].g
        BY <2>2, <3>1
      <4>2. hit = "queue" /\ gen[m.p] = g => pstate[m.p] # "setup"
        BY <2>0, <3>1, <4>1 DEF FirstReader
      <4> QED BY <3>1, <3>2, <4>1, <4>2, <1>ApplyProtocol
    <3>3. CASE reader' = [reader EXCEPT ![1].pc = "fail"] /\ UNCHANGED <<op, completed>>
      <4>1. reader'[1].pc = "fail" /\ reader'[1].m = reader[1].m
        BY <2>2, <3>3 DEF Readers
      <4>2. FirstReader'
        BY <4>1 DEF FirstReader
      <4> QED BY <2>3, <3>1, <3>3, <4>1, <4>2, StreamSame
    <3> QED BY <3>1, <3>2, <3>3
  <2> QED BY <2>1, <2>4, <2>5a, <2>5b, <2>6, <2>7, <2>8 DEF ReadThread
<1> QED BY <1>ReadThreadProtocol

\* What the controller asks for, and the bottom half that completes packets:
\* usb_tcp_remote_handle_packet, usb_tcp_remote_cancel_packet,
\* usb_tcp_remote_handle_reset, and their waits.
LEMMA DeviceProtocol ==
    AtWork /\ (CompletedBH \/ Controller) /\ ~closed /\ ~closed' /\ fate' = "fine" /\ ~gaveUp'
        => Protocol'
<1>SentAppend.
      ASSUME NEW q \in Seq(Requests), NEW m \in Requests, NEW p, NEW s
      PROVE  Sent(Append(q, m), p, s) <=> Sent(q, p, s) \/ (m.p = p /\ m.type = s)
  <2> USE <1>SentAppend
  <2>1. PICK b : b = Append(q, m)
    BY Zenon
  <2>2. /\ Len(q) \in Nat /\ Len(b) = Len(q) + 1 /\ b[Len(q) + 1] = m
        /\ \A i \in 1 .. Len(q) : b[i] = q[i]
    BY <2>1, AppendEntries, SMTT(20)
  <2>3. Sent(b, p, s) <=> Sent(q, p, s) \/ (m.p = p /\ m.type = s)
    BY <2>2, SMTT(20) DEF Sent
  <2> QED BY <2>1, <2>3
<1>RequestOrderAppend.
      ASSUME NEW q \in Seq(Requests), RequestOrder(q), NEW m \in Requests,
             m.p \in Packets => /\ ~Sent(q, m.p, "request")
                                /\ m.type = "request" \/ ~Sent(q, m.p, "cancel")
      PROVE  RequestOrder(Append(q, m))
  <2> USE <1>RequestOrderAppend
  <2>1. PICK b : b = Append(q, m)
    BY Zenon
  <2>2. /\ Len(q) \in Nat /\ Len(b) = Len(q) + 1 /\ b[Len(q) + 1] = m
        /\ \A i \in 1 .. Len(q) : b[i] = q[i]
    BY <2>1, AppendEntries, SMTT(20)
  <2> SUFFICES ASSUME NEW i \in 1 .. Len(b), NEW j \in 1 .. Len(b), i < j, b[i].p = b[j].p,
                      b[i].p \in Packets
               PROVE  b[i].type = "cancel" /\ b[j].type = "request"
    BY <2>1 DEF RequestOrder
  <2>3. i \in 1 .. Len(q) /\ b[i] = q[i]
    BY <2>2, SMTT(20)
  <2>4. CASE j \in 1 .. Len(q)
    BY <2>2, <2>3, <2>4 DEF RequestOrder
  <2>5. CASE j = Len(q) + 1
    <3>1. b[j] = m /\ q[i].p = m.p /\ m.p \in Packets
      BY <2>2, <2>3, <2>5
    <3>2. q[i].type \in {"request", "cancel"}
      <4>1. q[i] \in Requests /\ q[i].p \in Packets
        BY <2>3, <3>1, SMTT(20)
      <4> QED BY <4>1, USBAssumption, SMTT(20) DEF Requests
    <3>3. Sent(q, m.p, q[i].type)
      BY <2>3, <3>1 DEF Sent
    <3>4. q[i].type = "cancel" /\ m.type = "request"
      BY <3>1, <3>2, <3>3, Zenon
    <3> QED BY <2>3, <3>1, <3>4, ZenonT(30)
  <2> QED BY <2>2, <2>4, <2>5, SMTT(20)
<1>HeldIsReply.
      ASSUME TypeOK, reader[1].m \in Messages
      PROVE  Reply(reader[1].m.p, reader[1].m.status)
  <2> USE <1>HeldIsReply
  <2> HIDE DEF NoMsg
  <2>1. PICK m \in Messages : m = reader[1].m
    OBVIOUS
  <2>2. Stream = <<m>> \o toDev[1]
    BY <2>1, FirstConn DEF Stream
  <2>3. Stream \in Seq(Messages) /\ Stream # <<>> /\ Head(Stream) = m
    BY <2>2, FirstConn, ConsEntries
  <2>4. Answered(Stream, m.p, m.status)
    BY <2>3, AnsweredTail
  <2> QED BY <2>1, <2>4 DEF Reply
<1>NoReplyAbout.
      ASSUME TypeOK, NEW p, ~Reply(p, "async"), ~Reply(p, "nak"), ~Reply(p, "ok")
      PROVE  /\ \A i \in 1 .. Len(Stream) : Stream[i].p # p
             /\ reader[1].m \in Messages => reader[1].m.p # p
  <2> USE <1>NoReplyAbout
  <2>1. ASSUME NEW m \in Messages PROVE m.status \in {"async", "nak", "ok"}
    BY DEF Messages
  <2>2. PICK s \in Seq(Messages) : s = Stream
    BY StreamTyped
  <2>3. ASSUME NEW i \in 1 .. Len(s) PROVE s[i].p # p
    <3>1. s[i].status \in {"async", "nak", "ok"}
      BY <2>1, SMTT(20)
    <3> QED BY <2>2, <3>1 DEF Reply, Answered
  <2>4. reader[1].m \in Messages => reader[1].m.p # p
    BY <2>1, <1>HeldIsReply
  <2> QED BY <2>2, <2>3, <2>4, Zenon
\* What the device writes on the first connection.
<1>Written. ASSUME AtWork, NEW m \in Requests, Write(m)
            PROVE  \/ toPeer[1] = <<>> /\ toPeer'[1] = <<>>
                   \/ toPeer'[1] = Append(toPeer[1], m)
  <2> USE <1>Written
  <2>1. fd = 1 /\ toPeer \in [Conns -> Seq(Requests)] /\ 1 \in Conns
    BY ConnTypes, FirstConn DEF AtWork, OnlyConnection
  <2>2. 1 \in cut => toPeer[1] = <<>>
    BY DEF AtWork, LinksOK
  <2> QED BY <2>1, <2>2 DEF Write
<1>SubmitProtocol.
      ASSUME AtWork, NEW p \in Packets, HandlePacket(p), ~closed'
      PROVE  Protocol'
  <2> USE <1>SubmitProtocol
  <2>0. TypeOK /\ CallsMatch /\ Protocol /\ fd = 1 /\ FirstReader /\ PacketInv(p)
    BY DEF AtWork, OnlyConnection, Protocol
  <2>1. /\ op.kind = "none" /\ pstate[p] = "free"
        /\ UNCHANGED <<reader, completed, ioc, hqueue, toDev>>
    BY DEF HandlePacket, peerVars
  <2>2. CASE UNCHANGED <<op, pstate, gen, toPeer>>
    <3>1. Stream' = Stream /\ FirstReader'
      BY <2>0, <2>1, <2>2, StreamSame, Zenon DEF FirstReader
    <3>2. \A q \in Packets : Queued(q)' => Queued(q) /\ hqueue'[q] = hqueue[q]
      BY <2>1 DEF Queued
    <3> QED BY <2>0, <2>1, <2>2, <3>1, <3>2, ProtocolKept
  <2>3. CASE ~UNCHANGED <<op, pstate, gen, toPeer>>
    <3>1. /\ gen' = [gen EXCEPT ![p] = @ + 1]
          /\ op' = [kind |-> "packet", p |-> p, handled |-> FALSE, status |-> "none"]
          /\ pstate' = [pstate EXCEPT ![p] = "setup"]
          /\ Write([type |-> "request", p |-> p, g |-> gen[p] + 1])
      BY <2>0, <2>3 DEF HandlePacket
    <3>2. PICK m : m = [type |-> "request", p |-> p, g |-> gen[p] + 1]
      BY Zenon
    <3>3. gen \in [Packets -> Nat] /\ pstate \in [Packets -> {"free", "setup", "async", "canceled"}]
      BY <2>0, TypeParts DEF PacketsOK
    <3>4. m \in Requests /\ m.type = "request" /\ m.p = p /\ m.g = gen'[p]
      BY <3>1, <3>2, <3>3, SMTT(20) DEF Requests
    <3>5. /\ gen'[p] = gen[p] + 1 /\ pstate'[p] = "setup"
          /\ \A q \in Packets : q # p => gen'[q] = gen[q] /\ pstate'[q] = pstate[q]
      BY <3>1, <3>3
    <3>6. PICK a, b : a = toPeer[1] /\ b = toPeer'[1]
      OBVIOUS
    <3>7. a \in Seq(Requests) /\ ((a = <<>> /\ b = <<>>) \/ b = Append(a, m))
      BY <2>0, <3>1, <3>2, <3>4, <3>6, <1>Written, FirstConn, ZenonT(30)
    <3>8. ~Asked(p) /\ ~Queued(p) /\ ~Listed(p) /\ ~Reply(p, "async") /\ ~Reply(p, "nak") /\ ~Reply(p, "ok")
      BY <2>0, <2>1, Zenon DEF PacketInv, Ending
    <3>9. Stream' = Stream
      BY <2>1, StreamSame
    <3>10. RequestOrder(a) /\ ~Sent(a, p, "request") /\ ReplyOrder(Stream)
      BY <2>0, <3>6, <3>8 DEF Protocol, Asked
    <3>11. RequestOrder(b)
      BY <3>4, <3>7, <3>10, <1>RequestOrderAppend, Zenon
    <3>12. RequestsPresent'
      <4>1. \A i \in 1 .. Len(a) : a[i].type = "request" => a[i].p # p /\ a[i].g = gen[a[i].p]
        BY <2>0, <3>6, <3>10, Zenon DEF Protocol, RequestsPresent, Sent
      <4>2. \A i \in 1 .. Len(a) : a[i].type = "request" => a[i].p \in Packets
        <5>1. \A x \in Requests : x.type = "request" => x.p \in Packets
          BY SMT  DEF Requests
        <5> QED BY <3>7, <5>1, SMT
      <4>3. \A i \in 1 .. Len(a) : a[i].type = "request" => a[i].g = gen'[a[i].p]
        BY <3>5, <4>1, <4>2
      <4>4. CASE a = <<>> /\ b = <<>>
        BY <3>6, <4>4, SMT DEF RequestsPresent
      <4>5. CASE b = Append(a, m)
        <5>1. /\ Len(a) \in Nat /\ Len(b) = Len(a) + 1 /\ b[Len(a) + 1] = m
              /\ \A i \in 1 .. Len(a) : b[i] = a[i]
          BY <3>4, <3>7, <4>5, AppendEntries, SMT
        <5>2. \A i \in 1 .. Len(b) : b[i] = m \/ (i \in 1 .. Len(a) /\ b[i] = a[i])
          BY <5>1, SMT
        <5>3. \A i \in 1 .. Len(b) : b[i].type = "request" => b[i].g = gen'[b[i].p]
          BY <3>4, <4>3, <5>2, Zenon
        <5> QED BY <3>6, <5>3 DEF RequestsPresent
      <4> QED BY <3>7, <4>4, <4>5
    <3>13. RepliesPresent' /\ ListPresent'
      <4>1. Stream \in Seq(Messages) /\ completed \in Seq([p : Packets, g : Nat])
        BY <2>0, StreamTyped, TypeParts DEF PacketsOK
      <4>2. \A i \in 1 .. Len(Stream) : Stream[i].p \in Packets
        BY <4>1, MessagePackets, Zenon
      <4>3. \A i \in 1 .. Len(Stream) : Stream[i].p # p /\ Stream[i].p \in Packets
        BY <2>0, <3>8, <4>2, <1>NoReplyAbout, Zenon
      <4>4. ASSUME NEW i \in 1 .. Len(completed)
            PROVE  completed[i].p # p /\ completed[i].p \in Packets
        <5>1. completed[i].p \in Packets
          BY <4>1, ListEntries, ZenonT(30)
        <5>2. completed[i].p # p
          BY <3>8 DEF Listed
        <5> QED BY <5>1, <5>2
      <4> QED BY <2>0, <2>1, <3>5, <3>9, <4>3, <4>4, Zenon DEF Protocol,
                 RepliesPresent, ListPresent
    <3>14. FirstReader'
      <4>1. reader[1].pc = "data" => reader[1].m.p # p /\ reader[1].m.p \in Packets
        BY <2>0, <3>8, FirstConn, <1>NoReplyAbout, ZenonT(30) DEF Messages
      <4> HIDE DEF NoMsg
      <4> QED BY <2>0, <2>1, <3>5, <4>1, ZenonT(30) DEF FirstReader
    <3>15. op'.kind = "packet" /\ op'.p = p /\ op'.handled = FALSE
      BY <3>1
    <3>16. ASSUME NEW q, NEW s, q # p PROVE Sent(b, q, s) <=> Sent(a, q, s)
      <4>1. Sent(Append(a, m), q, s) <=> Sent(a, q, s) \/ (m.p = q /\ m.type = s)
        BY <3>4, <3>7, <1>SentAppend
      <4> QED BY <3>4, <3>7, <3>16, <4>1, ZenonT(30)
    <3>17. ASSUME NEW q \in Packets PROVE PacketInv(q)'
      <4>1. PacketInv(q)
        BY <2>0 DEF Protocol
      <4>2. /\ Queued(q)' <=> Queued(q)
            /\ Listed(q)' <=> Listed(q)
            /\ hqueue'[q] = hqueue[q]
            /\ \A s \in {"async", "nak", "ok"} : Reply(q, s)' <=> Reply(q, s)
        BY <2>1, <3>9 DEF Queued, Listed, Reply
      <4>3. CASE q = p
        <5>1. Waiting(p)' /\ ~Settled(p)'
          BY <3>15 DEF Waiting, Settled
        <5>2. Recalled(p)' => Asked(p)'
          <6>1. CASE b = <<>>
            BY <3>6, <6>1, SMTT(20) DEF Recalled, Sent
          <6>2. CASE b = Append(a, m)
            <7>1. Sent(b, p, "request")
              BY <3>4, <3>7, <6>2, <1>SentAppend
            <7> QED BY <3>6, <7>1 DEF Asked
          <6> QED BY <3>7, <6>1, <6>2
        <5> QED BY <3>5, <3>8, <4>2, <4>3, <5>1, <5>2, ZenonT(30) DEF PacketInv, Ending
      <4>4. CASE q # p
        <5>1. (Waiting(q)' <=> Waiting(q)) /\ (Settled(q)' <=> Settled(q))
          BY <2>1, <3>15, <4>4, ZenonT(30) DEF Waiting, Settled
        <5>2. (Asked(q)' <=> Asked(q)) /\ (Recalled(q)' <=> Recalled(q))
          BY <3>6, <3>16, <4>4 DEF Asked, Recalled
        <5> QED BY <3>5, <4>1, <4>2, <4>4, <5>1, <5>2, PacketKept, ZenonT(30)
      <4> QED BY <4>3, <4>4
    <3> QED BY <3>6, <3>9, <3>10, <3>11, <3>12, <3>13, <3>14, <3>17, ZenonT(30)
               DEF Protocol
  <2> QED BY <2>2, <2>3
\* A step of the controller that only ends a call or packets, or changes the
\* completed queue to nothing: what is under way stays as it is.
<1>ProtocolByPacket.
      ASSUME AtWork, UNCHANGED <<reader, gen, toPeer, toDev, ioc, hqueue>>,
             UNCHANGED completed \/ completed' = <<>>,
             \A p \in Packets : pstate'[p] = "setup" => pstate[p] = "setup",
             \A p \in Packets :
                 /\ Asked(p)' <=> Asked(p)
                 /\ Recalled(p)' <=> Recalled(p)
                 /\ Queued(p)' <=> Queued(p)
                 /\ hqueue'[p] = hqueue[p] /\ gen'[p] = gen[p]
                 /\ \A s \in {"async", "nak", "ok"} : Reply(p, s)' <=> Reply(p, s)
                 /\ Listed(p)' => Listed(p)
                 => PacketInv(p)'
      PROVE  Protocol'
  <2> USE <1>ProtocolByPacket
  <2>0. Protocol /\ FirstReader /\ TypeOK
    BY ZenonT(30) DEF AtWork, Protocol
  <2>1. Stream' = Stream
    BY StreamSame, ZenonT(30)
  <2>2. ASSUME NEW p \in Packets PROVE PacketInv(p)'
    <3>1. /\ Asked(p)' <=> Asked(p)
          /\ Recalled(p)' <=> Recalled(p)
          /\ Queued(p)' <=> Queued(p)
          /\ hqueue'[p] = hqueue[p] /\ gen'[p] = gen[p]
      BY ZenonT(30) DEF Asked, Recalled, Queued
    <3>2. \A s \in {"async", "nak", "ok"} : Reply(p, s)' <=> Reply(p, s)
      BY <2>1, ZenonT(30) DEF Reply
    <3>3. Listed(p)' => Listed(p)
      BY ListShrinks, Zenon
    <3> QED BY <3>1, <3>2, <3>3, ZenonT(30)
  <2>3. FirstReader'
    <3>1. reader[1].pc = "data" => reader[1].m.p \in Packets
      BY <2>0, FirstConn, ZenonT(30) DEF Messages
    <3> HIDE DEF NoMsg
    <3> QED BY <2>0, <3>1, ZenonT(30) DEF FirstReader
  <2>4. RequestOrder(toPeer'[1]) /\ ReplyOrder(Stream') /\ RequestsPresent' /\ RepliesPresent'
    BY <2>0, <2>1, ZenonT(30) DEF Protocol, RequestsPresent, RepliesPresent
  <2>5. ListPresent'
    BY <2>0, ListShrinks, Zenon DEF Protocol
  <2> QED BY <2>2, <2>3, <2>4, <2>5, ZenonT(30) DEF Protocol
\* handle_packet and cancel_packet return.
<1>ReturnProtocol.
      ASSUME AtWork, PacketDone \/ CancelDone, ~gaveUp'
      PROVE  Protocol'
  <2> USE <1>ReturnProtocol
  <2>0. TypeOK /\ CallsMatch /\ Protocol
    BY DEF AtWork
  <2>1. PICK p \in Packets : p = op.p
    BY <2>0 DEF PacketDone, CancelDone, CallsMatch
  <2>2. pstate \in [Packets -> {"free", "setup", "async", "canceled"}]
    BY <2>0, TypeParts DEF PacketsOK
  <2>3. /\ UNCHANGED <<reader, gen, toPeer, toDev, ioc, hqueue, completed>>
        /\ op' = NoOp /\ op.kind # "none" /\ op.handled
        /\ \/ pstate' = [pstate EXCEPT ![p] = "free"] /\ Settled(p)
           \/ pstate' = [pstate EXCEPT ![p] = "async"] /\ pstate[p] = "setup"
    <3>1. CASE PacketDone
      BY <2>0, <2>1, <3>1, ZenonT(30) DEF PacketDone, Settled, CallsMatch, peerVars
    <3>2. CASE CancelDone
      BY <2>1, <3>2, Zenon DEF CancelDone, Settled, peerVars
    <3> QED BY <3>1, <3>2
  <2>4. /\ \A q \in Packets : q # p => pstate'[q] = pstate[q]
        /\ (pstate'[p] = "free" /\ Settled(p)) \/ (pstate'[p] = "async" /\ pstate[p] = "setup")
    BY <2>2, <2>3
  <2>5. \A q : ~Waiting(q)' /\ ~Settled(q)'
    BY <2>3, Zenon DEF NoOp, Waiting, Settled
  <2>6. \A q : ~Waiting(q)
    BY <2>3 DEF Waiting
  <2>7. ASSUME NEW q \in Packets,
               Asked(q)' <=> Asked(q), Recalled(q)' <=> Recalled(q), Queued(q)' <=> Queued(q),
               hqueue'[q] = hqueue[q] /\ gen'[q] = gen[q],
               \A s \in {"async", "nak", "ok"} : Reply(q, s)' <=> Reply(q, s),
               Listed(q)' => Listed(q)
        PROVE  PacketInv(q)'
    <3>1. PacketInv(q)
      BY <2>0 DEF Protocol
    <3>2. CASE q # p
      <4>1. ~Settled(q)
        BY <2>1, <3>2 DEF Settled
      <4> QED BY <2>4, <2>5, <2>6, <2>7, <3>1, <3>2, <4>1, PacketKept, ZenonT(30)
    <3>3. CASE q = p /\ pstate'[p] = "free" /\ Settled(p)
      BY <2>5, <2>7, <3>1, <3>3, ZenonT(30) DEF PacketInv, Ending
    <3>4. CASE q = p /\ pstate'[p] = "async" /\ pstate[p] = "setup"
      BY <2>5, <2>6, <2>7, <3>1, <3>4, ZenonT(30) DEF PacketInv, Ending
    <3> QED BY <2>4, <3>2, <3>3, <3>4
  <2> HIDE DEF NoOp
  <2>8. \A q \in Packets : pstate'[q] = "setup" => pstate[q] = "setup"
    BY <2>4
  <2> QED BY <2>3, <2>7, <2>8, <1>ProtocolByPacket, Zenon
\* The completed queue is emptied by the bottom half.
<1>CompletedProtocol.
      ASSUME AtWork, CompletedBH, fate' = "fine"
      PROVE  Protocol'
  <2> USE <1>CompletedProtocol
  <2>0. TypeOK /\ CallsMatch /\ Protocol
    BY DEF AtWork
  <2>1. /\ UNCHANGED <<reader, gen, toPeer, toDev, ioc, hqueue, op>>
        /\ completed' = <<>> /\ pstate' = CompleteAll(completed)
    BY DEF CompletedBH, peerVars
  <2>2. \A q \in Packets : pstate'[q] = pstate[q] \/ (pstate[q] = "async" /\ pstate'[q] = "free" /\ Listed(q))
    <3>1. pstate \in [Packets -> {"free", "setup", "async", "canceled"}]
          /\ completed \in Seq([p : Packets, g : Nat])
      BY <2>0, TypeParts DEF PacketsOK
    <3>2. DOMAIN completed = 1 .. Len(completed)
      BY <3>1, SMTT(20)
    <3> QED BY <2>1, <3>1, <3>2 DEF CompleteAll, Listed
  <2>3. \A q : ~Listed(q)'
    BY <2>1, SMTT(20) DEF Listed
  <2>4. ASSUME NEW q \in Packets,
               Asked(q)' <=> Asked(q), Recalled(q)' <=> Recalled(q), Queued(q)' <=> Queued(q),
               hqueue'[q] = hqueue[q] /\ gen'[q] = gen[q],
               \A s \in {"async", "nak", "ok"} : Reply(q, s)' <=> Reply(q, s),
               Listed(q)' => Listed(q)
        PROVE  PacketInv(q)'
    <3>1. PacketInv(q)
      BY <2>0 DEF Protocol
    <3>2. (Waiting(q)' <=> Waiting(q)) /\ (Settled(q)' <=> Settled(q))
      BY <2>1 DEF Waiting, Settled
    <3>3. CASE pstate'[q] = pstate[q]
      BY <2>3, <2>4, <3>1, <3>2, <3>3, PacketKept, ZenonT(30)
    <3>4. CASE pstate[q] = "async" /\ pstate'[q] = "free" /\ Listed(q)
      BY <2>3, <2>4, <3>1, <3>2, <3>4, ZenonT(30) DEF PacketInv, Ending
    <3> QED BY <2>2, <3>3, <3>4
  <2>5. \A q \in Packets : pstate'[q] = "setup" => pstate[q] = "setup"
    BY <2>2
  <2> QED BY <2>1, <2>4, <2>5, <1>ProtocolByPacket, Zenon
\* The device writes something that is not a request.
<1>WriteProtocol.
      ASSUME AtWork, NEW m \in Requests, m.type # "request", Write(m),
             m.p \in Packets => ~Asked(m.p) /\ ~Recalled(m.p),
             UNCHANGED <<reader, gen, toDev, ioc, hqueue>>,
             UNCHANGED completed \/ completed' = <<>>,
             \A p \in Packets : pstate'[p] = "setup" => pstate[p] = "setup",
             \A p \in Packets :
                 /\ Asked(p)' <=> Asked(p)
                 /\ Recalled(p)' => Recalled(p) \/ p = m.p
                 /\ Queued(p)' <=> Queued(p)
                 /\ hqueue'[p] = hqueue[p] /\ gen'[p] = gen[p]
                 /\ \A s \in {"async", "nak", "ok"} : Reply(p, s)' <=> Reply(p, s)
                 /\ Listed(p)' => Listed(p)
                 => PacketInv(p)'
      PROVE  Protocol'
  <2> USE <1>WriteProtocol
  <2>0. Protocol /\ FirstReader /\ TypeOK
    BY ZenonT(30) DEF AtWork, Protocol
  <2>1. Stream' = Stream
    BY StreamSame, ZenonT(30)
  <2>2. PICK a, b : a = toPeer[1] /\ b = toPeer'[1]
    BY ZenonT(30)
  <2>3. a \in Seq(Requests) /\ ((a = <<>> /\ b = <<>>) \/ b = Append(a, m))
    BY <2>0, <2>2, <1>Written, FirstConn, ZenonT(30)
  <2>4. ASSUME NEW q, NEW s PROVE Sent(b, q, s) => Sent(a, q, s) \/ (q = m.p /\ s # "request")
    <3>1. Sent(Append(a, m), q, s) <=> Sent(a, q, s) \/ (m.p = q /\ m.type = s)
      BY <2>3, <1>SentAppend, ZenonT(30)
    <3> QED BY <2>3, <3>1, ZenonT(30)
  <2>5. ASSUME NEW q, NEW s PROVE Sent(a, q, s) => Sent(b, q, s)
    <3>1. Sent(Append(a, m), q, s) <=> Sent(a, q, s) \/ (m.p = q /\ m.type = s)
      BY <2>3, <1>SentAppend, Zenon
    <3> QED BY <2>3, <3>1, ZenonT(30)
  <2>6. RequestOrder(b)
    <3>1. RequestOrder(a)
      BY <2>0, <2>2, ZenonT(30) DEF Protocol
    <3>2. m.p \in Packets => ~Sent(a, m.p, "request") /\ ~Sent(a, m.p, "cancel")
      BY <2>2, ZenonT(30) DEF Asked, Recalled
    <3>3. RequestOrder(Append(a, m))
      BY <2>3, <3>1, <3>2, <1>RequestOrderAppend, ZenonT(30)
    <3> QED BY <2>3, <3>1, <3>3, ZenonT(30)
  <2>7. RequestsPresent'
    BY <2>0, <2>2, <2>3, RequestsStayPresent, ZenonT(30) DEF Protocol
  <2>8. ASSUME NEW p \in Packets PROVE PacketInv(p)'
    <3>1. /\ Asked(p)' <=> Asked(p)
          /\ Recalled(p)' => Recalled(p) \/ p = m.p
      BY <2>2, <2>4, <2>5, ZenonT(30) DEF Asked, Recalled
    <3>2. /\ Queued(p)' <=> Queued(p)
          /\ hqueue'[p] = hqueue[p] /\ gen'[p] = gen[p]
      BY ZenonT(30) DEF Queued
    <3>3. \A s \in {"async", "nak", "ok"} : Reply(p, s)' <=> Reply(p, s)
      BY <2>1, ZenonT(30) DEF Reply
    <3>4. Listed(p)' => Listed(p)
      BY ListShrinks, Zenon
    <3> QED BY <3>1, <3>2, <3>3, <3>4, Zenon
  <2>9. FirstReader'
    <3>1. reader[1].pc = "data" => reader[1].m.p \in Packets
      BY <2>0, FirstConn, ZenonT(30) DEF Messages
    <3> HIDE DEF NoMsg
    <3> QED BY <2>0, <3>1, ZenonT(30) DEF FirstReader
  <2>10. ReplyOrder(Stream') /\ RepliesPresent' /\ ListPresent'
    BY <2>0, <2>1, ListShrinks, Zenon DEF Protocol, RepliesPresent
  <2> QED BY <2>2, <2>6, <2>7, <2>8, <2>9, <2>10, ZenonT(30) DEF Protocol
<1>CancelProtocol.
      ASSUME AtWork, NEW p \in Packets, CancelPacket(p), ~closed, ~closed'
      PROVE  Protocol'
  <2> USE <1>CancelProtocol
  <2>0. TypeOK /\ CallsMatch /\ Protocol /\ fd = 1 /\ PacketInv(p)
    BY DEF AtWork, OnlyConnection, Protocol
  <2>1. /\ op.kind = "none" /\ pstate[p] = "async"
        /\ UNCHANGED <<reader, gen, completed, ioc, hqueue, toDev>>
        /\ pstate' = [pstate EXCEPT ![p] = "canceled"]
        /\ op' = [kind |-> "cancel", p |-> p, handled |-> FALSE, status |-> "none"]
        /\ Write([type |-> "cancel", p |-> p, g |-> gen[p]])
    <3>1. ASSUME NEW r, Closed(r) PROVE FALSE
      BY <2>0, <3>1, SMTT(20) DEF Closed
    <3> QED BY <3>1, Zenon DEF CancelPacket, peerVars
  <2>2. PICK m : m = [type |-> "cancel", p |-> p, g |-> gen[p]]
    BY Zenon
  <2>3. m \in Requests /\ m.type = "cancel" /\ m.p = p /\ Write(m)
    <3>1. gen[p] \in Nat
      BY <2>0, TypeParts DEF PacketsOK
    <3> QED BY <2>1, <2>2, <3>1, Zenon DEF Requests
  <2>4. pstate'[p] = "canceled" /\ \A q \in Packets : q # p => pstate'[q] = pstate[q]
    BY <2>0, <2>1, TypeParts, ZenonT(30) DEF PacketsOK
  <2>5. op'.kind = "cancel" /\ op'.p = p /\ op'.handled = FALSE
    BY <2>1, ZenonT(30)
  <2>6. \A q : ~Waiting(q) /\ ~Settled(q) /\ ~Settled(q)' /\ (Waiting(q)' <=> q = p)
    BY <2>1, <2>5, ZenonT(30) DEF Waiting, Settled
  <2>7. ~Asked(p) /\ ~Recalled(p)
    BY <2>0, <2>1, Zenon DEF PacketInv
  <2>8. ASSUME NEW q \in Packets,
               Asked(q)' <=> Asked(q), Recalled(q)' => Recalled(q) \/ q = p,
               Queued(q)' <=> Queued(q), hqueue'[q] = hqueue[q] /\ gen'[q] = gen[q],
               \A s \in {"async", "nak", "ok"} : Reply(q, s)' <=> Reply(q, s),
               Listed(q)' => Listed(q)
        PROVE  PacketInv(q)'
    <3>1. PacketInv(q)
      BY <2>0 DEF Protocol
    <3>2. CASE q # p
      BY <2>4, <2>6, <2>8, <3>1, <3>2, PacketKept, ZenonT(30)
    <3>3. CASE q = p
      BY <2>1, <2>4, <2>6, <2>7, <2>8, <3>1, <3>3, ZenonT(30) DEF PacketInv, Ending
    <3> QED BY <3>2, <3>3
  <2>9. \A q \in Packets : pstate'[q] = "setup" => pstate[q] = "setup"
    BY <2>4
  <2>10. UNCHANGED <<reader, gen, completed, ioc, hqueue, toDev>>
    BY <2>1, ZenonT(30)
  <2> QED BY <2>3, <2>7, <2>8, <2>9, <2>10, <1>WriteProtocol, Zenon
<1>ResetProtocol.
      ASSUME AtWork, HandleReset, ~closed'
      PROVE  Protocol'
  <2> USE <1>ResetProtocol
  <2>0. TypeOK /\ CallsMatch /\ Protocol /\ fd = 1
    BY DEF AtWork, OnlyConnection
  <2>1. /\ UNCHANGED <<reader, gen, ioc, hqueue, toDev, pstate, op>> /\ completed' = <<>>
        /\ Write([type |-> "reset", p |-> NoPacket, g |-> 0])
    <3>1. ASSUME NEW r, Closed(r) PROVE FALSE
      BY <2>0, <3>1, SMT DEF Closed
    <3> QED BY <3>1, Zenon DEF HandleReset, peerVars
  <2>2. PICK m : m = [type |-> "reset", p |-> NoPacket, g |-> 0]
    BY ZenonT(30)
  <2>3. m \in Requests /\ m.type # "request" /\ m.p \notin Packets /\ Write(m)
    BY <2>1, <2>2, USBAssumption, Zenon DEF Requests
  <2>4. ASSUME NEW q \in Packets,
               Asked(q)' <=> Asked(q), Recalled(q)' => Recalled(q) \/ q = m.p,
               Queued(q)' <=> Queued(q), hqueue'[q] = hqueue[q] /\ gen'[q] = gen[q],
               \A s \in {"async", "nak", "ok"} : Reply(q, s)' <=> Reply(q, s),
               Listed(q)' => Listed(q)
        PROVE  PacketInv(q)'
    <3>1. PacketInv(q) /\ pstate'[q] = pstate[q] /\ q # m.p
      BY <2>0, <2>1, <2>3, ZenonT(30) DEF Protocol
    <3>2. (Waiting(q)' <=> Waiting(q)) /\ (Settled(q)' <=> Settled(q))
      BY <2>1, ZenonT(30) DEF Waiting, Settled
    <3> QED BY <2>4, <3>1, <3>2, PacketKept, ZenonT(30)
  <2>5. /\ UNCHANGED <<reader, gen, ioc, hqueue, toDev>> /\ completed' = <<>>
        /\ \A q \in Packets : pstate'[q] = "setup" => pstate[q] = "setup"
    BY <2>1
  <2> QED BY <2>3, <2>4, <2>5, <1>WriteProtocol, ZenonT(30)
<1> QED BY <1>SubmitProtocol, <1>CancelProtocol, <1>ReturnProtocol, <1>ResetProtocol,
           <1>CompletedProtocol DEF Controller

-----------------------------------------------------------------------------
(* The peer's steps.                                                       *)

\* What the peer does: it connects, hangs up, reads requests and answers them.
LEMMA PeerStepProtocol ==
    AtWork /\ Peer => Protocol'
<1>ConsAppend.
      ASSUME NEW S, NEW q \in Seq(S), NEW h \in S, NEW m \in S
      PROVE  <<h>> \o Append(q, m) = Append(<<h>> \o q, m)
  <2> USE <1>ConsAppend
  <2>1. <<h>> \in Seq(S) /\ Len(<<h>>) = 1 /\ <<h>>[1] = h
    BY SMTT(20)
  <2> DEFINE b == Append(q, m)
             c == <<h>> \o b
             d == <<h>> \o q
             e == Append(d, m)
  <2>2. b \in Seq(S) /\ Len(b) = Len(q) + 1 /\ Len(q) \in Nat /\ b[Len(q) + 1] = m
        /\ \A i \in 1 .. Len(q) : b[i] = q[i]
    BY AppendEntries, SMTT(20)
  <2> HIDE DEF b
  <2>3. c \in Seq(S) /\ Len(c) = Len(q) + 2 /\ c[1] = h /\ \A i \in 1 .. Len(b) : c[i + 1] = b[i]
    BY <2>1, <2>2, SMTT(20)
  <2>4. d \in Seq(S) /\ Len(d) = Len(q) + 1 /\ d[1] = h /\ \A i \in 1 .. Len(q) : d[i + 1] = q[i]
    BY <2>1, SMTT(20)
  <2> HIDE DEF c, d
  <2>5. e \in Seq(S) /\ Len(e) = Len(q) + 2 /\ e[Len(q) + 2] = m /\ \A i \in 1 .. Len(d) : e[i] = d[i]
    BY <2>2, <2>4, SMTT(20)
  <2> HIDE DEF e
  <2>6. ASSUME NEW i \in 1 .. Len(q) + 2 PROVE c[i] = e[i]
    <3>1. CASE i = 1
      BY <2>2, <2>3, <2>4, <2>5, <3>1, SMTT(20)
    <3>2. CASE i \in 2 .. Len(q) + 1
      <4>1. i - 1 \in 1 .. Len(q) /\ i - 1 \in 1 .. Len(b) /\ i \in 1 .. Len(d) /\ (i - 1) + 1 = i
        BY <2>2, <2>4, <3>2, SMTT(20)
      <4>2. c[i] = b[i - 1] /\ d[i] = q[i - 1] /\ b[i - 1] = q[i - 1] /\ e[i] = d[i]
        BY <2>2, <2>3, <2>4, <2>5, <4>1, Zenon
      <4> QED BY <4>2
    <3>3. CASE i = Len(q) + 2
      <4>1. Len(q) + 1 \in 1 .. Len(b) /\ c[Len(q) + 2] = b[Len(q) + 1]
        BY <2>2, <2>3, SMTT(20)
      <4> QED BY <2>2, <2>5, <3>3, <4>1
    <3> QED BY <2>2, <3>1, <3>2, <3>3, SMTT(20)
  <2>7. c = e
    BY <2>3, <2>5, <2>6, SMTT(20)
  <2> QED BY <2>7 DEF b, c, d, e
<1>StreamRespond.
      ASSUME TypeOK, NEW x \in Messages, UNCHANGED reader, toDev'[1] = Append(toDev[1], x)
      PROVE  Stream' = Append(Stream, x)
  <2> USE <1>StreamRespond
  <2> HIDE DEF NoMsg
  <2>1. CASE reader[1].m = NoMsg
    BY <2>1 DEF Stream
  <2>2. CASE reader[1].m # NoMsg
    <3>1. reader[1].m \in Messages
      BY <2>2, FirstConn
    <3>2. <<reader[1].m>> \o Append(toDev[1], x) = Append(<<reader[1].m>> \o toDev[1], x)
      BY <3>1, FirstConn, <1>ConsAppend, SMTT(20)
    <3> QED BY <2>2, <3>2 DEF Stream
  <2> QED BY <2>1, <2>2
<1>AnsweredAppend.
      ASSUME NEW q \in Seq(Messages), NEW m \in Messages, NEW p, NEW s
      PROVE  Answered(Append(q, m), p, s) <=> Answered(q, p, s) \/ (m.p = p /\ m.status = s)
  <2> USE <1>AnsweredAppend
  <2>1. PICK b : b = Append(q, m)
    BY Zenon
  <2>2. /\ Len(q) \in Nat /\ Len(b) = Len(q) + 1 /\ b[Len(q) + 1] = m
        /\ \A i \in 1 .. Len(q) : b[i] = q[i]
    BY <2>1, AppendEntries, SMT
  <2>3. Answered(b, p, s) <=> Answered(q, p, s) \/ (m.p = p /\ m.status = s)
    BY <2>2, SMTT(20) DEF Answered
  <2> QED BY <2>1, <2>3
<1>ReplyOrderAppend.
      ASSUME NEW q \in Seq(Messages), ReplyOrder(q), NEW m \in Messages,
             \A s \in {"async", "nak", "ok"} : Answered(q, m.p, s) => s = "async" /\ m.status = "ok"
      PROVE  ReplyOrder(Append(q, m))
  <2> USE <1>ReplyOrderAppend
  <2>1. PICK b : b = Append(q, m)
    BY Zenon
  <2>2. /\ Len(q) \in Nat /\ Len(b) = Len(q) + 1 /\ b[Len(q) + 1] = m
        /\ \A i \in 1 .. Len(q) : b[i] = q[i]
    BY <2>1, AppendEntries, SMTT(20)
  <2> SUFFICES ASSUME NEW i \in 1 .. Len(b), NEW j \in 1 .. Len(b), i < j, b[i].p = b[j].p
               PROVE  b[i].status = "async" /\ b[j].status = "ok"
    BY <2>1 DEF ReplyOrder
  <2>3. i \in 1 .. Len(q) /\ b[i] = q[i]
    BY <2>2, SMTT(20)
  <2>4. CASE j \in 1 .. Len(q)
    BY <2>2, <2>3, <2>4 DEF ReplyOrder
  <2>5. CASE j = Len(q) + 1
    <3>1. b[j] = m /\ q[i].p = m.p
      BY <2>2, <2>3, <2>5
    <3>2. q[i].status \in {"async", "nak", "ok"}
      <4>1. q[i] \in Messages
        BY <2>3, SMTT(20)
      <4> QED BY <4>1 DEF Messages
    <3>3. Answered(q, m.p, q[i].status)
      BY <2>3, <3>1 DEF Answered
    <3> QED BY <2>3, <3>1, <3>2, <3>3
  <2> QED BY <2>2, <2>4, <2>5, SMTT(20)
\* The peer answers about the present submission of a packet.
<1>Responded.
      ASSUME AtWork, NEW p \in Packets, NEW status \in {"async", "nak", "ok"},
             UNCHANGED <<reader, gen>>, ioc = 1, Respond(p, gen[p], status),
             \A s \in {"async", "nak", "ok"} : Reply(p, s) => s = "async" /\ status = "ok"
      PROVE  /\ ReplyOrder(Stream') /\ RepliesPresent'
             /\ \A q, s : Reply(q, s)' <=> Reply(q, s) \/ (q = p /\ s = status)
  <2> USE <1>Responded
  <2>0. TypeOK /\ Protocol
    BY DEF AtWork
  <2>1. PICK x : x = [p |-> p, g |-> gen[p], status |-> status]
    BY ZenonT(30)
  <2>2. x \in Messages /\ x.p = p /\ x.status = status /\ x.g = gen[p]
    <3>1. gen[p] \in Nat
      BY <2>0, TypeParts DEF PacketsOK
    <3> QED BY <2>1, <3>1, Zenon DEF Messages
  <2>3. toDev'[1] = Append(toDev[1], x)
    <3>1. toDev' = [toDev EXCEPT ![1] = Append(@, x)]
      BY <2>1, SMTT(20) DEF Respond
    <3> QED BY <2>0, <3>1, ConnTypes, FirstConn, ZenonT(30)
  <2>4. PICK a, b : a = Stream /\ b = Stream'
    OBVIOUS
  <2>5. a \in Seq(Messages) /\ b = Append(a, x)
    BY <2>0, <2>2, <2>3, <2>4, StreamTyped, <1>StreamRespond, ZenonT(30)
  <2>6. ReplyOrder(b)
    <3>1. ReplyOrder(a)
      BY <2>0, <2>4 DEF Protocol
    <3>2. \A s \in {"async", "nak", "ok"} : Answered(a, x.p, s) => s = "async" /\ x.status = "ok"
      BY <2>2, <2>4, ZenonT(30) DEF Reply
    <3> QED BY <2>2, <2>5, <3>1, <3>2, <1>ReplyOrderAppend, ZenonT(30)
  <2>7. ASSUME NEW q, NEW s PROVE Answered(b, q, s) <=> Answered(a, q, s) \/ (q = p /\ s = status)
    BY <2>2, <2>5, <1>AnsweredAppend, ZenonT(30)
  <2>8. \A i \in 1 .. Len(b) : b[i].g = gen[b[i].p]
    <3>1. \A i \in 1 .. Len(a) : a[i].g = gen[a[i].p]
      BY <2>0, <2>4, Zenon DEF Protocol, RepliesPresent
    <3>2. /\ Len(a) \in Nat /\ Len(b) = Len(a) + 1 /\ b[Len(a) + 1] = x
          /\ \A i \in 1 .. Len(a) : b[i] = a[i]
      BY <2>2, <2>5, AppendEntries, SMTT(20)
    <3> QED BY <2>2, <3>1, <3>2, SMTT(20)
  <2> QED BY <2>4, <2>6, <2>7, <2>8, ZenonT(30) DEF Reply, RepliesPresent
<1>SentTail.
      ASSUME NEW q \in Seq(Requests), q # <<>>, NEW p, NEW s
      PROVE  Sent(q, p, s) <=> Sent(Tail(q), p, s) \/ (Head(q).p = p /\ Head(q).type = s)
  <2> USE <1>SentTail
  <2>1. PICK h, t : h = Head(q) /\ t = Tail(q)
    BY Zenon
  <2>2. /\ Len(q) \in Nat /\ Len(q) >= 1 /\ Len(t) = Len(q) - 1 /\ q[1] = h
        /\ \A i \in 1 .. Len(t) : t[i] = q[i + 1]
    BY <2>1, TailEntries
  <2>3. ASSUME Sent(q, p, s) PROVE Sent(t, p, s) \/ (h.p = p /\ h.type = s)
    <3>1. PICK i \in 1 .. Len(q) : q[i].p = p /\ q[i].type = s
      BY <2>3 DEF Sent
    <3>2. CASE i # 1
      <4>1. i - 1 \in 1 .. Len(t) /\ t[i - 1] = q[(i - 1) + 1] /\ (i - 1) + 1 = i
        BY <2>2, <3>2, SMT
      <4> QED BY <3>1, <4>1 DEF Sent
    <3> QED BY <2>2, <3>1, <3>2
  <2>4. ASSUME Sent(t, p, s) PROVE Sent(q, p, s)
    <3>1. PICK i \in 1 .. Len(t) : t[i].p = p /\ t[i].type = s
      BY <2>4 DEF Sent
    <3>2. i + 1 \in 1 .. Len(q) /\ q[i + 1] = t[i]
      BY <2>2, SMT
    <3> QED BY <3>1, <3>2 DEF Sent
  <2>5. h.p = p /\ h.type = s => Sent(q, p, s)
    BY <2>2, SMT DEF Sent
  <2> QED BY <2>1, <2>3, <2>4, <2>5
<1>RequestOrderTail.
      ASSUME NEW q \in Seq(Requests), q # <<>>, RequestOrder(q)
      PROVE  /\ RequestOrder(Tail(q))
             /\ \A s : Head(q).p \in Packets /\ Sent(Tail(q), Head(q).p, s)
                          => Head(q).type = "cancel" /\ s = "request"
  <2> USE <1>RequestOrderTail
  <2>1. PICK h, t : h = Head(q) /\ t = Tail(q)
    BY Zenon
  <2>2. /\ Len(q) \in Nat /\ Len(q) >= 1 /\ Len(t) = Len(q) - 1 /\ q[1] = h
        /\ \A i \in 1 .. Len(t) : t[i] = q[i + 1]
    BY <2>1, TailEntries
  <2>3. RequestOrder(t)
    <3> SUFFICES ASSUME NEW i \in 1 .. Len(t), NEW j \in 1 .. Len(t), i < j, t[i].p = t[j].p,
                        t[i].p \in Packets
                 PROVE  t[i].type = "cancel" /\ t[j].type = "request"
      BY DEF RequestOrder
    <3>1. i + 1 \in 1 .. Len(q) /\ j + 1 \in 1 .. Len(q) /\ i + 1 < j + 1
      BY <2>2, SMTT(20)
    <3>2. t[i] = q[i + 1] /\ t[j] = q[j + 1]
      BY <2>2
    <3> QED BY <3>1, <3>2 DEF RequestOrder
  <2>4. ASSUME NEW s, h.p \in Packets, Sent(t, h.p, s) PROVE h.type = "cancel" /\ s = "request"
    <3>1. PICK i \in 1 .. Len(t) : t[i].p = h.p /\ t[i].type = s
      BY <2>4 DEF Sent
    <3>2. 1 \in 1 .. Len(q) /\ i + 1 \in 1 .. Len(q) /\ 1 < i + 1 /\ q[i + 1] = t[i]
      BY <2>2, SMT
    <3> QED BY <2>2, <2>4, <3>1, <3>2, SMTT(20) DEF RequestOrder
  <2> QED BY <2>1, <2>3, <2>4
\* The peer reads the next message of the first connection.
<1>RequestTaken.
      ASSUME AtWork, UNCHANGED gen, toPeer[1] # <<>>, toPeer'[1] = Tail(toPeer[1]),
             NEW m, m = Head(toPeer[1])
      PROVE  /\ m \in Requests /\ RequestOrder(toPeer'[1]) /\ RequestsPresent'
             /\ \A q : (Asked(q) <=> Asked(q)' \/ (q = m.p /\ m.type = "request"))
             /\ \A q : (Recalled(q) <=> Recalled(q)' \/ (q = m.p /\ m.type = "cancel"))
             /\ m.p \in Packets => /\ ~Recalled(m.p)'
                                   /\ m.type = "request" => ~Asked(m.p)' /\ m.g = gen[m.p]
  <2> USE <1>RequestTaken
  <2>0. TypeOK /\ Protocol
    BY DEF AtWork
  <2>1. PICK a, b : a = toPeer[1] /\ b = toPeer'[1]
    BY ZenonT(30)
  <2>2. /\ a \in Seq(Requests) /\ a # <<>> /\ b = Tail(a) /\ m = Head(a) /\ RequestOrder(a)
    BY <2>0, <2>1, FirstConn, Zenon DEF Protocol
  <2>3. /\ Len(a) \in Nat /\ Len(a) >= 1 /\ Len(b) = Len(a) - 1 /\ a[1] = m /\ m \in Requests
        /\ \A i \in 1 .. Len(b) : b[i] = a[i + 1]
    BY <2>2, TailEntries, SMT
  <2>4. \A i \in 1 .. Len(a) : a[i].type = "request" => a[i].g = gen[a[i].p]
    BY <2>0, <2>1, ZenonT(30) DEF Protocol, RequestsPresent
  <2>5. \A i \in 1 .. Len(b) : b[i].type = "request" => b[i].g = gen[b[i].p]
    BY <2>3, <2>4, SMTT(20)
  <2>6. m.type = "request" => m.g = gen[m.p]
    BY <2>3, <2>4, SMTT(20)
  <2>7. ASSUME NEW q, NEW s PROVE Sent(a, q, s) <=> Sent(b, q, s) \/ (q = m.p /\ s = m.type)
    BY <2>2, <1>SentTail, ZenonT(30)
  <2>8. RequestOrder(b) /\ \A s : m.p \in Packets /\ Sent(b, m.p, s) => m.type = "cancel" /\ s = "request"
    <3>1. /\ RequestOrder(Tail(a))
          /\ \A s : Head(a).p \in Packets /\ Sent(Tail(a), Head(a).p, s)
                       => Head(a).type = "cancel" /\ s = "request"
      BY <2>2, <1>RequestOrderTail, ZenonT(30)
    <3> QED BY <2>2, <3>1
  <2>9. RequestsPresent'
    BY <2>1, <2>5, ZenonT(30) DEF RequestsPresent
  <2>10. /\ \A q : (Asked(q) <=> Asked(q)' \/ (q = m.p /\ m.type = "request"))
         /\ \A q : (Recalled(q) <=> Recalled(q)' \/ (q = m.p /\ m.type = "cancel"))
    BY <2>1, <2>7, ZenonT(30) DEF Asked, Recalled
  <2>11. m.p \in Packets => ~Recalled(m.p)' /\ (m.type = "request" => ~Asked(m.p)')
    BY <2>1, <2>8, ZenonT(30) DEF Asked, Recalled
  <2> QED BY <2>1, <2>3, <2>6, <2>8, <2>9, <2>10, <2>11, Zenon
\* A step of the peer: the device's variables stay as they are.
<1>PeerProtocol.
      ASSUME AtWork, UNCHANGED <<reader, op, pstate, gen, completed>>,
             RequestOrder(toPeer'[1]), RequestsPresent', ReplyOrder(Stream'), RepliesPresent',
             \A q \in Packets :
                 /\ pstate'[q] = pstate[q] /\ gen'[q] = gen[q]
                 /\ Listed(q)' <=> Listed(q)
                 /\ Waiting(q)' <=> Waiting(q)
                 /\ Settled(q)' <=> Settled(q)
                 => PacketInv(q)'
      PROVE  Protocol'
  <2> USE <1>PeerProtocol
  <2>1. ASSUME NEW q \in Packets PROVE PacketInv(q)'
    <3>1. Listed(q)' <=> Listed(q)
      BY ZenonT(30) DEF Listed
    <3>2. (Waiting(q)' <=> Waiting(q)) /\ (Settled(q)' <=> Settled(q))
      BY ZenonT(30) DEF Waiting, Settled
    <3> QED BY <3>1, <3>2, ZenonT(30)
  <2>2. FirstReader' /\ ListPresent'
    BY ZenonT(30) DEF AtWork, Protocol, FirstReader, ListPresent
  <2> QED BY <2>1, <2>2, ZenonT(30) DEF Protocol
\* The peer does something on another connection, or on none.
<1>PeerElsewhere.
      ASSUME AtWork, UNCHANGED <<reader, op, pstate, gen, completed>>,
             toPeer'[1] = toPeer[1], toDev'[1] = toDev[1], ioc' # 1
      PROVE  Protocol'
  <2> USE <1>PeerElsewhere
  <2>1. Stream' = Stream /\ FirstReader'
    BY StreamSame, ZenonT(30) DEF AtWork, Protocol, FirstReader
  <2>2. \A p \in Packets : Queued(p)' => Queued(p) /\ hqueue'[p] = hqueue[p]
    BY DEF Queued
  <2> QED BY <2>1, <2>2, ProtocolKept, ZenonT(30) DEF AtWork
<1>PeerConnectProtocol.
      ASSUME AtWork, PeerConnect
      PROVE  Protocol'
  <2> USE <1>PeerConnectProtocol
  <2>1. /\ UNCHANGED <<reader, op, pstate, gen, completed, toPeer, toDev>>
        /\ ioc' = made + 1
    BY DEF PeerConnect, devVars
  <2>2. made \in Nat /\ made >= 1
    BY ConnTypes, SMT DEF AtWork
  <2> QED BY <2>1, <2>2, <1>PeerElsewhere, SMTT(20)
<1>PeerClosedProtocol.
      ASSUME AtWork, PeerClosed
      PROVE  Protocol'
  <2> USE <1>PeerClosedProtocol
  <2>0. TypeOK /\ Protocol
    BY DEF AtWork
  <2>1. /\ UNCHANGED <<reader, op, pstate, gen, completed, toDev>> /\ ioc' = 0
        /\ toPeer' = [toPeer EXCEPT ![ioc] = <<>>]
    BY DEF PeerClosed, devVars
  <2>2. CASE ioc # 1
    <3>1. toPeer'[1] = toPeer[1]
      BY <2>0, <2>1, <2>2, ConnTypes, FirstConn, ZenonT(30)
    <3> QED BY <2>1, <3>1, <1>PeerElsewhere, SMT
  <2>3. CASE ioc = 1
    <3>1. toPeer'[1] = <<>>
      BY <2>0, <2>1, <2>3, ConnTypes, FirstConn, ZenonT(30)
    <3>2. RequestOrder(toPeer'[1]) /\ RequestsPresent'
      BY <3>1, SMTT(20) DEF RequestOrder, RequestsPresent
    <3>3. Stream' = Stream
      BY <2>1, StreamSame
    <3>4. ReplyOrder(Stream') /\ RepliesPresent'
      BY <2>0, <2>1, <3>3, ZenonT(30) DEF Protocol, RepliesPresent
    <3>5. ASSUME NEW q \in Packets, pstate'[q] = pstate[q], gen'[q] = gen[q],
                 Listed(q)' <=> Listed(q), Waiting(q)' <=> Waiting(q), Settled(q)' <=> Settled(q)
          PROVE  PacketInv(q)'
      <4>1. ~Asked(q)' /\ ~Recalled(q)' /\ ~Queued(q)'
        BY <2>1, <3>1, SMTT(20) DEF Asked, Recalled, Sent, Queued
      <4>2. \A s \in {"async", "nak", "ok"} : Reply(q, s)' => Reply(q, s)
        BY <3>3 DEF Reply
      <4>3. PacketInv(q)
        BY <2>0 DEF Protocol
      <4> QED BY <3>5, <4>1, <4>2, <4>3, PacketKept, ZenonT(30)
    <3> QED BY <2>1, <3>2, <3>4, <3>5, <1>PeerProtocol, ZenonT(30)
  <2> QED BY <2>2, <2>3
\* What a turn of the peer's loop makes of the packet of its message.
<1>PacketTaken.
      ASSUME NEW p \in Packets, PacketInv(p), pstate'[p] = pstate[p], gen'[p] = gen[p],
             Listed(p)' <=> Listed(p), Waiting(p)' <=> Waiting(p), Settled(p)' <=> Settled(p),
             Asked(p), ~Asked(p)', ~Recalled(p)', NEW status \in {"async", "nak", "ok"},
             \A s \in {"async", "nak", "ok"} : Reply(p, s)' <=> Reply(p, s) \/ s = status,
             Queued(p)' => status = "async" /\ hqueue'[p] = <<gen[p]>>
      PROVE  PacketInv(p)'
  BY <1>PacketTaken, ZenonT(30) DEF PacketInv, Ending
<1>PacketRecalled.
      ASSUME NEW p \in Packets, PacketInv(p), pstate'[p] = pstate[p], gen'[p] = gen[p],
             Listed(p)' <=> Listed(p), Waiting(p)' <=> Waiting(p), Settled(p)' <=> Settled(p),
             Recalled(p), Asked(p)' <=> Asked(p), ~Recalled(p)',
             Queued(p), ~Queued(p)', pstate[p] = "canceled" => Waiting(p) \/ Settled(p),
             \A s \in {"async", "nak", "ok"} : Reply(p, s)' <=> Reply(p, s) \/ s = "async"
      PROVE  PacketInv(p)'
  BY <1>PacketRecalled, ZenonT(30) DEF PacketInv, Ending
<1>PacketCompleted.
      ASSUME NEW p \in Packets, PacketInv(p), pstate'[p] = pstate[p], gen'[p] = gen[p],
             Listed(p)' <=> Listed(p), Waiting(p)' <=> Waiting(p), Settled(p)' <=> Settled(p),
             Recalled(p)' <=> Recalled(p), Asked(p)' <=> Asked(p), Queued(p), ~Queued(p)',
             \A s \in {"async", "nak", "ok"} : Reply(p, s)' <=> Reply(p, s) \/ s = "ok"
      PROVE  PacketInv(p)'
  BY <1>PacketCompleted, Zenon DEF PacketInv, Ending
<1>PeerCompleteProtocol.
      ASSUME AtWork, NEW p \in Packets, PeerComplete(p)
      PROVE  Protocol'
  <2> USE <1>PeerCompleteProtocol
  <2>0. TypeOK /\ Protocol /\ PacketInv(p)
    BY DEF AtWork, Protocol
  <2>1. /\ UNCHANGED <<reader, op, pstate, gen, completed, toPeer, ioc>> /\ hqueue[p] # <<>>
        /\ hqueue' = [hqueue EXCEPT ![p] = Tail(@)] /\ Respond(p, Head(hqueue[p]), "ok")
    BY DEF PeerComplete, devVars
  <2>2. CASE ioc # 1
    <3>1. toDev'[1] = toDev[1]
      BY <2>0, <2>1, <2>2, ConnTypes, FirstConn, ZenonT(30) DEF Respond
    <3> QED BY <2>1, <2>2, <3>1, <1>PeerElsewhere
  <2>3. CASE ioc = 1
    <3>1. Queued(p) /\ hqueue[p] = <<gen[p]>>
      BY <2>0, <2>1, <2>3, ZenonT(30) DEF Queued, PacketInv
    <3>2. Head(hqueue[p]) = gen[p] /\ Tail(hqueue[p]) = <<>>
      BY <3>1, SMTT(20)
    <3>3. /\ hqueue \in [Packets -> Seq(Nat)]
      BY <2>0, TypeParts DEF WiresOK
    <3>4. ~Queued(p)' /\ \A q \in Packets : q # p => hqueue'[q] = hqueue[q]
      BY <2>1, <3>2, <3>3 DEF Queued
    <3>5. /\ ReplyOrder(Stream') /\ RepliesPresent'
          /\ \A q, s : Reply(q, s)' <=> Reply(q, s) \/ (q = p /\ s = "ok")
      <4>1. Respond(p, gen[p], "ok")
        BY <2>1, <3>2
      <4>2. \A s \in {"async", "nak", "ok"} : Reply(p, s) => s = "async" /\ "ok" = "ok"
        BY <2>0, <3>1, ZenonT(30) DEF PacketInv, Ending
      <4> QED BY <2>1, <2>3, <4>1, <4>2, <1>Responded, ZenonT(30)
    <3>6. RequestOrder(toPeer'[1]) /\ RequestsPresent'
      BY <2>0, <2>1, Zenon DEF Protocol, RequestsPresent
    <3>7. ASSUME NEW q \in Packets, pstate'[q] = pstate[q], gen'[q] = gen[q],
                 Listed(q)' <=> Listed(q), Waiting(q)' <=> Waiting(q), Settled(q)' <=> Settled(q)
          PROVE  PacketInv(q)'
      <4>1. (Asked(q)' <=> Asked(q)) /\ (Recalled(q)' <=> Recalled(q))
        BY <2>1 DEF Asked, Recalled
      <4>2. CASE q = p
        BY <2>0, <3>1, <3>4, <3>5, <3>7, <4>1, <4>2, <1>PacketCompleted, ZenonT(30)
      <4>3. CASE q # p
        <5>1. PacketInv(q)
          BY <2>0 DEF Protocol
        <5>2. Queued(q)' => Queued(q) /\ hqueue'[q] = hqueue[q]
          BY <2>1, <3>4, <4>3 DEF Queued
        <5> QED BY <3>5, <3>7, <4>1, <4>3, <5>1, <5>2, PacketKept, ZenonT(30)
      <4> QED BY <4>2, <4>3
    <3> QED BY <2>1, <3>5, <3>6, <3>7, <1>PeerProtocol, ZenonT(30)
  <2> QED BY <2>2, <2>3
<1>PeerReadProtocol.
      ASSUME AtWork, PeerRead
      PROVE  Protocol'
  <2> USE <1>PeerReadProtocol
  <2>0. TypeOK /\ CallsMatch /\ Protocol
    BY DEF AtWork
  <2>1. /\ UNCHANGED <<reader, op, pstate, gen, completed, ioc>> /\ ioc # 0
        /\ toPeer[ioc] # <<>> /\ toPeer' = [toPeer EXCEPT ![ioc] = Tail(@)]
    BY ZenonT(30) DEF PeerRead, devVars
  <2>2. CASE ioc # 1
    <3>1. toPeer'[1] = toPeer[1]
      BY <2>0, <2>1, <2>2, ConnTypes, FirstConn, ZenonT(30)
    <3>2. toDev' = toDev \/ \E x : toDev' = [toDev EXCEPT ![ioc] = x]
      BY ZenonT(30) DEF PeerRead, Respond
    <3>3. toDev'[1] = toDev[1]
      BY <2>0, <2>2, <3>2, ConnTypes, FirstConn, ZenonT(30)
    <3> QED BY <2>1, <2>2, <3>1, <3>3, <1>PeerElsewhere, ZenonT(30)
  <2>3. CASE ioc = 1
    <3>0. PICK m : m = Head(toPeer[1])
      OBVIOUS
    <3>1. toPeer[1] # <<>> /\ toPeer'[1] = Tail(toPeer[1])
      BY <2>0, <2>1, <2>3, ConnTypes, FirstConn, ZenonT(30)
    <3>2. /\ m \in Requests /\ RequestOrder(toPeer'[1]) /\ RequestsPresent'
          /\ \A q : (Asked(q) <=> Asked(q)' \/ (q = m.p /\ m.type = "request"))
          /\ \A q : (Recalled(q) <=> Recalled(q)' \/ (q = m.p /\ m.type = "cancel"))
          /\ m.p \in Packets => /\ ~Recalled(m.p)'
                                /\ m.type = "request" => ~Asked(m.p)' /\ m.g = gen[m.p]
      BY <2>1, <3>0, <3>1, <1>RequestTaken, ZenonT(30)
    <3>3. hqueue \in [Packets -> Seq(Nat)] /\ gen \in [Packets -> Nat]
      BY <2>0, TypeParts DEF WiresOK, PacketsOK
    <3>4. CASE UNCHANGED <<hqueue, toDev>> /\ m.type # "request"
      <4>1. Stream' = Stream
        BY <2>1, <3>4, StreamSame
      <4>2. ReplyOrder(Stream') /\ RepliesPresent'
        BY <2>0, <2>1, <4>1, ZenonT(30) DEF Protocol, RepliesPresent
      <4>3. ASSUME NEW q \in Packets, pstate'[q] = pstate[q], gen'[q] = gen[q],
                   Listed(q)' <=> Listed(q), Waiting(q)' <=> Waiting(q), Settled(q)' <=> Settled(q)
            PROVE  PacketInv(q)'
        <5>1. PacketInv(q)
          BY <2>0 DEF Protocol
        <5>2. Queued(q)' => Queued(q) /\ hqueue'[q] = hqueue[q]
          BY <2>1, <3>4 DEF Queued
        <5>3. \A s \in {"async", "nak", "ok"} : Reply(q, s)' => Reply(q, s)
          BY <4>1 DEF Reply
        <5>4. (Asked(q)' <=> Asked(q)) /\ (Recalled(q)' => Recalled(q))
          BY <3>2, <3>4, ZenonT(30)
        <5> QED BY <4>3, <5>1, <5>2, <5>3, <5>4, PacketKept, ZenonT(30)
      <4> QED BY <2>1, <3>2, <4>2, <4>3, <1>PeerProtocol, ZenonT(30)
    <3>5. ASSUME NEW p \in Packets, p = m.p, m.type = "request",
                 NEW status \in {"async", "nak", "ok"}, Respond(p, m.g, status),
                 \/ status = "async" /\ hqueue' = [hqueue EXCEPT ![p] = Append(@, m.g)]
                 \/ hqueue[p] = <<>> /\ UNCHANGED hqueue
          PROVE  Protocol'
      <4>1. Asked(p) /\ ~Asked(p)' /\ ~Recalled(p)' /\ m.g = gen[p] /\ PacketInv(p)
        BY <2>0, <3>2, <3>5, ZenonT(30) DEF Protocol
      <4>2. ~Queued(p) /\ ~Reply(p, "async") /\ ~Reply(p, "nak") /\ ~Reply(p, "ok")
        BY <4>1, ZenonT(30) DEF PacketInv, Ending
      <4>3. hqueue[p] = <<>>
        BY <2>3, <4>2 DEF Queued
      <4>4. Append(<<>>, gen[p]) = <<gen[p]>>
        BY <3>3, SMTT(20)
      <4>5. /\ Queued(p)' => status = "async" /\ hqueue'[p] = <<gen[p]>>
            /\ \A q \in Packets : q # p => hqueue'[q] = hqueue[q]
        BY <3>3, <3>5, <4>1, <4>3, <4>4 DEF Queued
      <4>6. /\ ReplyOrder(Stream') /\ RepliesPresent'
            /\ \A q, s : Reply(q, s)' <=> Reply(q, s) \/ (q = p /\ s = status)
        <5>1. Respond(p, gen[p], status)
          BY <3>5, <4>1, Zenon
        <5>2. \A s \in {"async", "nak", "ok"} : Reply(p, s) => s = "async" /\ status = "ok"
          BY <4>2
        <5> QED BY <2>1, <2>3, <5>1, <5>2, <1>Responded, SMTT(20)
      <4>7. ASSUME NEW q \in Packets, pstate'[q] = pstate[q], gen'[q] = gen[q],
                   Listed(q)' <=> Listed(q), Waiting(q)' <=> Waiting(q), Settled(q)' <=> Settled(q)
            PROVE  PacketInv(q)'
        <5>1. CASE q = p
          BY <4>1, <4>5, <4>6, <4>7, <5>1, <1>PacketTaken, ZenonT(30)
        <5>2. CASE q # p
          <6>1. PacketInv(q)
            BY <2>0 DEF Protocol
          <6>2. Queued(q)' => Queued(q) /\ hqueue'[q] = hqueue[q]
            BY <2>1, <4>5, <5>2, ZenonT(30) DEF Queued
          <6>3. (Asked(q)' <=> Asked(q)) /\ (Recalled(q)' <=> Recalled(q))
            BY <3>2, <3>5, <5>2, ZenonT(30)
          <6> QED BY <4>6, <4>7, <5>2, <6>1, <6>2, <6>3, PacketKept, ZenonT(30)
        <5> QED BY <5>1, <5>2
      <4> QED BY <2>1, <3>2, <4>6, <4>7, <1>PeerProtocol, ZenonT(30)
    <3>6. ASSUME NEW p \in Packets, p = m.p, m.type = "cancel", hqueue[p] # <<>>,
                 hqueue' = [hqueue EXCEPT ![p] = Tail(@)], Respond(p, Head(hqueue[p]), "async")
          PROVE  Protocol'
      <4>1. Recalled(p) /\ ~Recalled(p)' /\ (Asked(p)' <=> Asked(p)) /\ PacketInv(p) /\ Queued(p)
        BY <2>0, <2>3, <3>2, <3>6, ZenonT(30) DEF Protocol, Queued
      <4>2. hqueue[p] = <<gen[p]>>
        BY <4>1, ZenonT(30) DEF PacketInv
      <4>3. Head(hqueue[p]) = gen[p] /\ Tail(hqueue[p]) = <<>>
        BY <4>2, SMTT(20)
      <4>4. ~Queued(p)' /\ \A q \in Packets : q # p => hqueue'[q] = hqueue[q]
        BY <3>3, <3>6, <4>3 DEF Queued
      <4>5. pstate[p] = "canceled" => Waiting(p) \/ Settled(p)
        BY <2>0, ZenonT(30) DEF CallsMatch, Waiting, Settled
      <4>6. ~Reply(p, "async") /\ ~Reply(p, "nak") /\ ~Reply(p, "ok")
        BY <4>1, <4>5, ZenonT(30) DEF PacketInv, Ending
      <4>7. /\ ReplyOrder(Stream') /\ RepliesPresent'
            /\ \A q, s : Reply(q, s)' <=> Reply(q, s) \/ (q = p /\ s = "async")
        <5>1. Respond(p, gen[p], "async")
          BY <3>6, <4>3
        <5>2. \A s \in {"async", "nak", "ok"} : Reply(p, s) => s = "async" /\ "async" = "ok"
          BY <4>6
        <5> QED BY <2>1, <2>3, <5>1, <5>2, <1>Responded
      <4>8. ASSUME NEW q \in Packets, pstate'[q] = pstate[q], gen'[q] = gen[q],
                   Listed(q)' <=> Listed(q), Waiting(q)' <=> Waiting(q), Settled(q)' <=> Settled(q)
            PROVE  PacketInv(q)'
        <5>1. CASE q = p
          BY <4>1, <4>4, <4>5, <4>7, <4>8, <5>1, <1>PacketRecalled, ZenonT(30)
        <5>2. CASE q # p
          <6>1. PacketInv(q)
            BY <2>0 DEF Protocol
          <6>2. Queued(q)' => Queued(q) /\ hqueue'[q] = hqueue[q]
            BY <2>1, <4>4, <5>2 DEF Queued
          <6>3. (Asked(q)' <=> Asked(q)) /\ (Recalled(q)' <=> Recalled(q))
            BY <3>2, <3>6, <5>2, ZenonT(30)
          <6> QED BY <4>7, <4>8, <5>2, <6>1, <6>2, <6>3, PacketKept, ZenonT(30)
        <5> QED BY <5>1, <5>2
      <4> QED BY <2>1, <3>2, <4>7, <4>8, <1>PeerProtocol, ZenonT(30)
    <3>7. m.type \in {"request", "cancel"} => m.p \in Packets
      BY <3>2, RequestPacket, Zenon
    <3>8. \/ /\ m.type = "request"
             /\ \/ /\ hqueue' = [hqueue EXCEPT ![m.p] = Append(@, m.g)]
                   /\ Respond(m.p, m.g, "async")
                \/ /\ hqueue[m.p] = <<>>
                   /\ \E status \in {"ok", "nak"} : Respond(m.p, m.g, status)
                   /\ UNCHANGED hqueue
          \/ /\ m.type = "cancel" /\ hqueue[m.p] # <<>>
             /\ hqueue' = [hqueue EXCEPT ![m.p] = Tail(@)]
             /\ Respond(m.p, Head(hqueue[m.p]), "async")
          \/ UNCHANGED <<hqueue, toDev>> /\ m.type # "request"
      BY <2>3, <3>0, ZenonT(30) DEF PeerRead
    <3>9. CASE m.type = "request"
      BY <3>5, <3>7, <3>8, <3>9, ZenonT(30)
    <3>10. CASE /\ m.type = "cancel" /\ hqueue[m.p] # <<>>
                /\ hqueue' = [hqueue EXCEPT ![m.p] = Tail(@)]
                /\ Respond(m.p, Head(hqueue[m.p]), "async")
      BY <3>6, <3>7, <3>10, ZenonT(30)
    <3> QED BY <3>4, <3>8, <3>9, <3>10
  <2> QED BY <2>2, <2>3
<1> QED BY <1>PeerConnectProtocol, <1>PeerClosedProtocol, <1>PeerReadProtocol,
           <1>PeerCompleteProtocol DEF Peer

\* Only a process that is fine takes a step, and a wait that was given up is
\* never forgotten.
LEMMA StepsRun == ASSUME TypeOK, Next PROVE fate = "fine" /\ (gaveUp => gaveUp')
<1>1. CASE AcceptThread
  BY <1>1, SMTT(20) DEF AcceptThread, Accept, Open, Attach, Test, Sleep, Running
<1>2. ASSUME NEW c \in Conns, ReadThread(c) PROVE fate = "fine" /\ gaveUp' = gaveUp
  BY <1>2 DEF ReadThread, ReadEnter, Recv, RecvRest, ReadFail, ReadGot, ReadData, Running
<1>3. CASE BottomHalves
  BY <1>3, SMT DEF BottomHalves, CleanupBH, CompletedBH, Running
<1>4. CASE Controller
  <2>1. ASSUME NEW p \in Packets, HandlePacket(p) PROVE Running /\ gaveUp' = gaveUp
    BY <2>1 DEF HandlePacket
  <2>2. ASSUME NEW p \in Packets, CancelPacket(p) PROVE Running /\ gaveUp' = gaveUp
    BY <2>2, ZenonT(30) DEF CancelPacket
  <2>3. ASSUME PacketDone \/ HandleReset PROVE Running /\ gaveUp' = gaveUp
    BY <2>3, Zenon DEF PacketDone, HandleReset
  <2>4. CASE CancelDone
    BY <2>4, Zenon DEF CancelDone, Running
  <2> QED BY <1>4, <2>1, <2>2, <2>3, <2>4, SMTT(20) DEF Controller, Running
<1>5. CASE Peer
  <2>1. ASSUME NEW p \in Packets, PeerComplete(p) PROVE Running /\ gaveUp' = gaveUp
    BY <2>1 DEF PeerComplete, devVars
  <2>2. ASSUME PeerConnect \/ PeerClosed \/ PeerRead PROVE Running /\ gaveUp' = gaveUp
    BY <2>2, Zenon DEF PeerConnect, PeerClosed, PeerRead, devVars
  <2> QED BY <1>5, <2>1, <2>2, SMTT(20) DEF Peer, Running
<1> QED BY <1>1, <1>2, <1>3, <1>4, <1>5 DEF Next

LEMMA WorkProtocol ==
    ASSUME AtWork, Next, ~closed, ~closed', fate' = "fine", ~gaveUp'
    PROVE  Protocol'
<1>1. CASE AcceptThread
  BY <1>1, AcceptThreadProtocol
<1>2. ASSUME NEW c \in Conns, ReadThread(c) PROVE Protocol'
  BY <1>2, ReadThreadProtocol
<1>3. CASE BottomHalves
  <2>1. ~CleanupBH
    BY Zenon DEF AtWork, OnlyConnection, CleanupBH
  <2> QED BY <1>3, <2>1, DeviceProtocol DEF BottomHalves
<1>4. CASE Controller
  BY <1>4, DeviceProtocol
<1>5. CASE Peer
  BY <1>5, PeerStepProtocol
<1> QED BY <1>1, <1>2, <1>3, <1>4, <1>5 DEF Next

LEMMA ProtocolStep == TypeOK /\ CallsMatch /\ ProtocolInv /\ [Next]_vars => ProtocolInv'
<1> SUFFICES ASSUME TypeOK, CallsMatch, ProtocolInv, [Next]_vars PROVE ProtocolInv'
  OBVIOUS
<1>0. LinksOK /\ OpeningOK /\ (FirstOpen => Protocol)
  BY DEF ProtocolInv
<1>1. LinksOK' /\ OpeningOK'
  BY <1>0, LinksStep, OpeningStep
<1>2. CASE UNCHANGED vars
  <2>1. UNCHANGED <<reader, toDev, pstate, gen, op, completed, toPeer, ioc, hqueue, fate, gaveUp, closed, accepted>>
    BY <1>2 DEF vars, devVars, peerVars
  <2>2. FirstOpen' => FirstOpen
    BY <2>1 DEF FirstOpen
  <2>3. Stream' = Stream /\ (FirstReader => FirstReader')
    BY <2>1, ZenonT(30) DEF Stream, FirstReader
  <2>4. \A p \in Packets : Queued(p)' => Queued(p) /\ hqueue'[p] = hqueue[p]
    BY <2>1 DEF Queued
  <2>5. Protocol => Protocol'
    <3>1. Protocol => FirstReader
      BY DEF Protocol
    <3> QED BY <2>1, <2>3, <2>4, <3>1, ProtocolKept
  <2> QED BY <1>0, <1>1, <2>2, <2>5 DEF ProtocolInv
<1>3. CASE Next /\ FirstOpen'
  <2>1. fate' = "fine" /\ ~gaveUp' /\ ~closed' /\ accepted' = 1
    BY <1>3 DEF FirstOpen
  <2>2. fate = "fine" /\ ~gaveUp
    BY <1>3, <2>1, StepsRun
  <2>3. CASE Open
    <3>1. accepted = 1 /\ apc = "opened"
      BY <2>1, <2>3 DEF Open
    <3>2. Fresh
      BY <1>0, <3>1 DEF OpeningOK
    <3> QED BY <1>1, <2>3, <3>2, ProtocolStarts DEF ProtocolInv
  <2>4. CASE ~Open
    <3>1. ~closed
      BY <1>3, <2>1, <2>4, OnlyOpenOpens
    <3>2. accepted = 1
      <4>1. CASE Accept
        <5>1. accepted = 0
          BY <2>1, <4>1, ConnTypes, SMTT(20) DEF Accept
        <5> QED BY <1>0, <3>1, <5>1 DEF OpeningOK, Fresh
      <4> QED BY <1>3, <2>1, <4>1, OnlyOpenOpens
    <3>3. FirstOpen /\ OnlyConnection
      BY <1>0, <2>2, <3>1, <3>2 DEF FirstOpen, OpeningOK
    <3>4. AtWork
      BY <1>0, <3>2, <3>3 DEF AtWork
    <3> QED BY <1>1, <1>3, <2>1, <3>1, <3>4, WorkProtocol DEF ProtocolInv
  <2> QED BY <2>3, <2>4
<1>4. CASE Next /\ ~FirstOpen'
  BY <1>1, <1>4 DEF ProtocolInv
<1> QED BY <1>2, <1>3, <1>4

LEMMA ProtocolInit == Init => ProtocolInv
<1> SUFFICES ASSUME Init PROVE ProtocolInv
  OBVIOUS
<1>1. LinksOK
  BY SMTT(20)  DEF Init, LinksOK
<1>2. OpeningOK
  BY DEF Init, OpeningOK, Fresh
<1>3. ~FirstOpen
  BY DEF Init, FirstOpen
<1> QED BY <1>1, <1>2, <1>3 DEF ProtocolInv

\* While the first connection is open and no cancellation has given up, the two
\* ends agree about every packet: what can still end it -- the request, the entry
\* of the peer's endpoint queue, the response or the entry of the completed queue
\* -- is in one place at most and about its present submission, and nothing is
\* left of a packet that was given back (usb_tcp_remote_read_one,
\* usb_tcp_host_msg_loop_co).
THEOREM EndsAgree == Spec => []ProtocolInv
<1> QED BY ProtocolInit, ProtocolStep, TypeCorrect, CallsOwnTheirPacket, PTL DEF Spec

-----------------------------------------------------------------------------
(* Responses and failures.                                                 *)

LEMMA CurrentReplies ==
    TypeOK /\ ProtocolInv => RepliesAreCurrent
<1>ReplyIsCurrent.
      ASSUME TypeOK, Protocol, NEW i \in 1 .. Len(Stream)
      PROVE  Stream[i].p \in Packets /\ Stream[i].g = gen[Stream[i].p] /\ pstate[Stream[i].p] # "free"
  <2> USE <1>ReplyIsCurrent
  <2>1. PICK s \in Seq(Messages) : s = Stream
    BY StreamTyped
  <2>2. PICK m \in Messages : m = s[i]
    BY <2>1, SMT
  <2>3. PICK p \in Packets, st \in {"async", "nak", "ok"} : p = m.p /\ st = m.status
    BY DEF Messages
  <2>4. Reply(p, st)
    BY <2>1, <2>2, <2>3, ZenonT(30) DEF Reply, Answered
  <2>5. PacketInv(p)
    BY DEF Protocol
  <2>6. pstate[p] # "free"
    BY <2>4, <2>5, ZenonT(30) DEF PacketInv, Ending
  <2>7. m.g = gen[p]
    BY <2>1, <2>2, <2>3, ZenonT(30) DEF Protocol, RepliesPresent
  <2> QED BY <2>1, <2>2, <2>3, <2>6, <2>7
<1>CurrentReplies. TypeOK /\ ProtocolInv => RepliesAreCurrent
  <2> SUFFICES ASSUME TypeOK, ProtocolInv, FirstOpen,
                      NEW m \in ({reader[c].m : c \in Conns} \ {NoMsg})
                                \cup {toDev[1][i] : i \in DOMAIN toDev[1]}
               PROVE  m.g = gen[m.p] /\ pstate[m.p] # "free"
    BY ZenonT(30) DEF RepliesAreCurrent, FirstOpen
  <2> HIDE DEF NoMsg
  <2>0. Protocol /\ OnlyConnection
    BY DEF ProtocolInv, OpeningOK, FirstOpen
  <2>1. PICK q \in Seq(Messages) : q = toDev[1]
    BY FirstConn
  <2>2. \E i \in 1 .. Len(Stream) : Stream[i] = m
    <3>1. CASE reader[1].m = NoMsg
      <4>1. Stream = q
        BY <2>1, <3>1 DEF Stream
      <4>2. m \notin {reader[c].m : c \in Conns} \ {NoMsg}
        <5>1. NoReader.m = NoMsg
          BY ZenonT(30) DEF NoReader
        <5> QED BY <2>0, <3>1, <5>1 DEF OnlyConnection
      <4> QED BY <2>1, <4>1, <4>2, SMTT(20)
    <3>2. CASE reader[1].m # NoMsg
      <4>1. PICK h \in Messages : h = reader[1].m
        BY <3>2, FirstConn, ZenonT(30)
      <4>2. PICK s \in Seq(Messages) : s = <<h>> \o q
        BY <4>1, ConsEntries, ZenonT(30)
      <4>3. Stream = s
        BY <2>1, <3>2, <4>1, <4>2, Zenon DEF Stream
      <4>4. s # <<>> /\ Head(s) = h /\ Tail(s) = q
        BY <4>1, <4>2, ConsEntries, SMT
      <4>5. /\ Len(s) \in Nat /\ Len(s) >= 1 /\ Len(q) = Len(s) - 1 /\ s[1] = h
            /\ \A i \in 1 .. Len(q) : q[i] = s[i + 1]
        BY <4>4, TailEntries, ZenonT(30)
      <4>6. CASE m = h
        BY <4>3, <4>5, <4>6, SMTT(20)
      <4>7. CASE m # h
        <5>1. m \notin {reader[c].m : c \in Conns} \ {NoMsg}
          <6>1. NoReader.m = NoMsg
            BY ZenonT(30) DEF NoReader
          <6> QED BY <2>0, <4>1, <4>7, <6>1, ZenonT(30) DEF OnlyConnection
        <5>2. PICK i \in 1 .. Len(q) : m = q[i]
          BY <2>1, <5>1, SMTT(20)
        <5>3. i + 1 \in 1 .. Len(s) /\ s[i + 1] = m
          BY <4>5, <5>2, SMT
        <5> QED BY <4>3, <5>3
      <4> QED BY <4>6, <4>7
    <3> QED BY <3>1, <3>2
  <2> QED BY <2>0, <2>2, <1>ReplyIsCurrent
<1> QED BY <1>CurrentReplies

\* While the first connection is open and no cancellation has given up, every
\* response under way, held by the read thread or not yet read, is about the
\* present submission of a packet the device has: comparing identifiers, as
\* usb_tcp_remote_read_one does, finds the right packet.
THEOREM RepliesStayCurrent == Spec => []RepliesAreCurrent
<1> QED BY CurrentReplies, TypeCorrect, EndsAgree, PTL

\* A response that is applied without the lock having been dropped is for a
\* packet and a record that are there.
LEMMA GotIsSafe ==
    ASSUME TypeOK, CallsMatch, NEW c \in Conns, NEW m \in Messages, Apply(c, m, HitOf(m), gen[m.p])
    PROVE  fate' = fate
<1>1. PICK p \in Packets : p = m.p
  BY DEF Messages
<1>2. PICK h : h = HitOf(m)
  OBVIOUS
<1>3. h = "none" \/ (h = "queue" /\ pstate[p] = "async") \/ (h = op.kind /\ op.p = p /\ h # "none")
  BY <1>1, <1>2, ZenonT(30) DEF HitOf
<1>4. op.kind \in {"none", "packet", "cancel"}
  BY TypeParts DEF PacketsOK, Calls
<1>5. h # "none" => pstate[p] # "free" /\ (h # "queue" => op.kind = h /\ op.p = p)
  BY <1>1, <1>3, <1>4, ZenonT(30) DEF CallsMatch
<1>6. h # "none" => Live([p |-> p, g |-> gen[p]])
  BY <1>5, ZenonT(30) DEF Live
<1> QED BY <1>1, <1>2, <1>5, <1>6 DEF Apply

LEMMA ListIsLive ==
    ASSUME TypeOK, Protocol, NEW i \in DOMAIN completed
    PROVE  completed[i].p \in Packets /\ Live(completed[i])
<1>1. PICK l \in Seq([p : Packets, g : Nat]) : l = completed
  BY TypeParts DEF PacketsOK
<1>2. PICK e : e = l[i]
  BY Zenon
<1>3. i \in 1 .. Len(completed) /\ e.p \in Packets
  <2>1. DOMAIN l = 1 .. Len(l)
    BY SMT
  <2>2. i \in 1 .. Len(l)
    BY <1>1, <2>1
  <2> QED BY <1>1, <1>2, <2>2, ListEntries, ZenonT(30)
<1>4. Listed(e.p) /\ PacketInv(e.p)
  BY <1>1, <1>2, <1>3 DEF Listed, Protocol
<1>5. pstate[e.p] # "free"
  BY <1>4, ZenonT(30) DEF PacketInv
<1>6. e.g = gen[e.p]
  BY <1>1, <1>2, <1>3, ZenonT(30) DEF Protocol, ListPresent
<1> QED BY <1>1, <1>2, <1>3, <1>5, <1>6, ZenonT(30) DEF Live

\* At work, only a pointer that a read thread kept can be wrong.
LEMMA WorkFails ==
    ASSUME AtWork, Next, fate' # fate
    PROVE  \E c \in Conns : reader'[c].pc = "data"
<1>0. TypeOK /\ CallsMatch /\ Protocol /\ OnlyConnection
  BY DEF AtWork
<1>1. CASE AcceptThread
  BY <1>0, <1>1 DEF AcceptThread, Accept, Open, Attach, Test, Sleep, OnlyConnection
<1>2. ASSUME NEW c \in Conns, ReadThread(c) PROVE reader'[c].pc = "data"
  <2>0. c = 1 /\ \A d \in Conns : d # 1 => reader[d].pc = "none"
    <3>1. reader[c].pc # "none"
      BY <1>2 DEF ReadThread, ReadEnter, Recv, RecvRest, ReadFail, ReadGot, ReadData
    <3>2. NoReader.pc = "none"
      BY SMTT(20) DEF NoReader
    <3> QED BY <1>0, <3>1, <3>2 DEF OnlyConnection
  <2>0a. reader[c].pc \in {"head", "data"} => ~RecvElsewhere(c)
    BY <1>0, <2>0 DEF RecvElsewhere, OnlyConnection, Protocol, FirstReader
  <2>1. CASE ReadEnter(c) \/ ReadFail(c)
    BY <2>1 DEF ReadEnter, ReadFail
  <2>1a. CASE Recv(c)
    <3>1. reader[1].pc = "recv"
      BY <2>0, <2>1a DEF Recv
    <3>2. ~Begun(reader[c].on)
      BY <2>0, <3>1 DEF Begun
    <3> QED BY <2>1a, <3>2 DEF Recv
  <2>1b. CASE RecvRest(c)
    BY <2>0a, <2>1b DEF RecvRest
  <2>2. CASE ReadGot(c)
    <3>1. PICK m \in Messages : m = reader[c].m
      BY <1>0, <2>2, TypeParts DEF ReadGot, ThreadsOK, ReaderOK
    <3>2. Apply(c, m, HitOf(m), gen[m.p]) \/ UNCHANGED fate
      BY <2>2, <3>1 DEF ReadGot
    <3> QED BY <1>0, <3>2, GotIsSafe, ZenonT(30)
  <2>3. CASE ReadData(c)
    <3>1. reader[c].pc = "data" /\ (UNCHANGED reader \/ UNCHANGED fate)
      BY <2>0a, <2>3 DEF ReadData, Apply
    <3> QED BY <3>1
  <2> QED BY <1>2, <2>1, <2>1a, <2>1b, <2>2, <2>3, ZenonT(30) DEF ReadThread
<1>3. CASE BottomHalves
  <2>1. ~CleanupBH
    BY <1>0, ZenonT(30) DEF OnlyConnection, CleanupBH
  <2>2. CASE CompletedBH
    BY <1>0, <2>2, ListIsLive, ZenonT(30) DEF CompletedBH
  <2> QED BY <1>3, <2>1, <2>2 DEF BottomHalves
<1>4. CASE Controller
  <2>1. ASSUME NEW p \in Packets, HandlePacket(p) PROVE fate' = fate
    BY <2>1 DEF HandlePacket
  <2>2. ASSUME NEW p \in Packets, CancelPacket(p) PROVE fate' = fate
    BY <2>2, ZenonT(30) DEF CancelPacket
  <2>3. CASE PacketDone \/ CancelDone
    BY <2>3, ZenonT(30) DEF PacketDone, CancelDone
  <2>4. CASE HandleReset
    <3>1. /\ fate = "fine" /\ fate' = CleanCompletedFate
          /\ \A p \in Packets : pstate[p] = "free"
      BY <2>4, ZenonT(30) DEF HandleReset, Running
    <3>2. ASSUME NEW i \in DOMAIN completed PROVE FALSE
      BY <1>0, <3>1, <3>2, ListIsLive, ZenonT(30) DEF Live
    <3>3. CleanCompletedFate = "fine"
      BY <3>2 DEF CleanCompletedFate
    <3> QED BY <3>1, <3>3
  <2> QED BY <1>4, <2>1, <2>2, <2>3, <2>4 DEF Controller
<1>5. CASE Peer
  BY <1>5, ZenonT(30) DEF Peer, PeerConnect, PeerClosed, PeerRead, PeerComplete
<1> QED BY <1>1, <1>2, <1>3, <1>4, <1>5 DEF Next

LEMMA CauseStep ==
    TypeOK /\ CallsMatch /\ ProtocolInv /\ FailsOnlyWithCause /\ [Next]_vars => FailsOnlyWithCause'
<1> SUFFICES ASSUME TypeOK, CallsMatch, ProtocolInv, FailsOnlyWithCause, [Next]_vars, fate' # "fine"
             PROVE  gaveUp' \/ closed' \/ accepted' > 1 \/ \E c \in Conns : reader'[c].pc = "data"
  BY DEF FailsOnlyWithCause
<1>1. CASE UNCHANGED vars
  <2>1. UNCHANGED <<fate, gaveUp, closed, accepted, reader>>
    BY <1>1 DEF vars, devVars
  <2> QED BY <2>1 DEF FailsOnlyWithCause
<1>2. CASE Next
  <2>1. fate = "fine" /\ (gaveUp => gaveUp')
    BY <1>2, StepsRun
  <2>2. closed => closed'
    <3>1. ~Open
      BY <2>1 DEF Open
    <3> QED BY <1>2, <3>1, OnlyOpenOpens
  <2>3. accepted \in Nat /\ (accepted > 1 => accepted' > 1)
    <3>1. accepted \in Nat
      BY ConnTypes, SMTT(20)
    <3>2. accepted' = accepted \/ accepted' = accepted + 1
      BY <1>2, OnlyOpenOpens DEF Accept
    <3> QED BY <3>1, <3>2, SMTT(20)
  <2>4. CASE gaveUp \/ closed \/ accepted > 1
    BY <2>1, <2>2, <2>3, <2>4
  <2>5. CASE ~(gaveUp \/ closed \/ accepted > 1)
    <3>1. accepted = 1
      BY <2>3, <2>5, SMTT(20) DEF ProtocolInv, OpeningOK, Fresh
    <3>2. FirstOpen
      BY <2>1, <2>5, <3>1 DEF FirstOpen
    <3>3. AtWork
      BY <2>5, <3>1, <3>2 DEF AtWork, ProtocolInv, OpeningOK
    <3> QED BY <1>2, <2>1, <3>3, WorkFails
  <2> QED BY <2>4, <2>5
<1> QED BY <1>1, <1>2, ZenonT(30)

\* An assertion of the device fails, it uses a packet or a record that is gone, or
\* it takes parts of two messages for one, only if a cancellation stopped waiting,
\* the connection was closed or replaced, or a read thread kept a pointer while it
\* read the data of a transfer without the lock (usb_tcp_remote_read_one).
THEOREM FailuresHaveACause == Spec => []FailsOnlyWithCause
<1>1. Init => FailsOnlyWithCause
  BY DEF Init, FailsOnlyWithCause
<1> QED BY <1>1, CauseStep, TypeCorrect, CallsOwnTheirPacket, EndsAgree, PTL DEF Spec
=============================================================================
