--------------------------- MODULE AppleSPIProofs ---------------------------
(***************************************************************************)
(* Proofs about the SPI controller and its DMA through the SIO, for any    *)
(* FIFO depth, any counts and any buffers the driver may queue.  The last  *)
(* part follows every buffer the driver queues through the request, the    *)
(* transfer and the response, and shows that each is in one place and      *)
(* comes back in order, and that only a STOP throws any away.              *)
(***************************************************************************)
EXTENDS AppleSPI, TLAPS, WellFoundedInduction

\* A step that names no prover is Zenon's; arithmetic, and what records and sequences
\* are made of, is left to SMT.
USE ZenonT(20)

\* Induction up to n, for sets.
LEMMA InductionTo ==
    \A n \in Nat : \A S :
        0 \in S /\ (\A i \in 1 .. n : i - 1 \in S => i \in S) => \A i \in 0 .. n : i \in S
<1>NatMin. ASSUME NEW T \in SUBSET Nat, T # {}
           PROVE \E x \in T : \A y \in T : x <= y
  <2> USE <1>NatMin
  <2>1. \E x \in T : \A y \in T : ~(<<y, x>> \in OpToRel(<, Nat))
    BY NatLessThanWellFounded, WFMin, Zenon
  <2>2. OpToRel(<, Nat) = {ss \in Nat \X Nat : ss[1] < ss[2]}
    BY Zenon DEF OpToRel
  <2>3. PICK x \in T : \A y \in T : ~(<<y, x>> \in {ss \in Nat \X Nat : ss[1] < ss[2]})
    BY <2>1, <2>2, Zenon
  <2>4. \A y \in T : ~(y < x)
    BY <2>3, Zenon
  <2> QED
    BY <2>4, SMT
<1>InductionTo.
      ASSUME NEW n \in Nat, NEW S, 0 \in S,
             \A i \in 1 .. n : i - 1 \in S => i \in S
      PROVE  \A i \in 0 .. n : i \in S
  <2> USE <1>InductionTo
  <2> SUFFICES ASSUME NEW k \in 0 .. n, k \notin S PROVE FALSE
    OBVIOUS
  <2> DEFINE T == {i \in 0 .. n : i \notin S}
  <2>1. T \in SUBSET Nat /\ T # {}
    BY SMT
  <2>2. PICK x \in T : \A y \in T : x <= y
    BY <2>1, <1>NatMin, Zenon
  <2>3. x # 0 /\ x \in 1 .. n /\ x - 1 \in 0 .. n
    BY <2>2, SMT
  <2>4. x - 1 \notin T
    BY <2>2, <2>3, SMT
  <2> QED BY <2>2, <2>3, <2>4
<1> QED BY <1>InductionTo

\* f begins with base and goes on by step, up to n.
Solves(f, n, base, step) ==
    /\ f[0] = base
    /\ \A i \in 1 .. n : f[i] = step[<<f[i - 1], i>>]

\* A recursion over 1 .. n with values in A has a solution.
LEMMA RecursionExists ==
    ASSUME NEW n \in Nat, NEW A, NEW base \in A, NEW step \in [A \X (1 .. n) -> A]
    PROVE  \E f \in [0 .. n -> A] : Solves(f, n, base, step)
<1> DEFINE S == {m \in 0 .. n : \E f \in [0 .. n -> A] : Solves(f, m, base, step)}
<1>1. 0 \in S
  <2> DEFINE f == [i \in 0 .. n |-> base]
  <2>1. f \in [0 .. n -> A] /\ Solves(f, 0, base, step)
    BY SMT DEF Solves
  <2> HIDE DEF f
  <2>2. \E g \in [0 .. n -> A] : Solves(g, 0, base, step)
    BY <2>1
  <2> QED BY <2>2, SMT
<1>2. ASSUME NEW m \in 1 .. n, m - 1 \in S PROVE m \in S
  <2>1. PICK f \in [0 .. n -> A] : Solves(f, m - 1, base, step)
    BY <1>2
  <2> DEFINE g == [f EXCEPT ![m] = step[<<f[m - 1], m>>]]
  <2>2. step[<<f[m - 1], m>>] \in A
    BY SMT
  <2>3. g \in [0 .. n -> A]
    BY <2>2
  <2>4. g[0] = base
    BY <2>1, SMT DEF Solves
  <2>5. ASSUME NEW i \in 1 .. m
        PROVE  g[i] = step[<<g[i - 1], i>>]
    <3>1. CASE i = m
      <4>1. g[m] = step[<<f[m - 1], m>>] /\ g[m - 1] = f[m - 1]
        BY SMT
      <4> QED BY <3>1, <4>1, Zenon
    <3>2. CASE i # m
      <4>1. i \in 1 .. m - 1 /\ g[i] = f[i] /\ g[i - 1] = f[i - 1]
        BY <3>2, SMT
      <4> QED BY <2>1, <4>1 DEF Solves
    <3> QED BY <3>1, <3>2
  <2>6. Solves(g, m, base, step)
    BY <2>4, <2>5 DEF Solves
  <2> HIDE DEF g
  <2>7. \E h \in [0 .. n -> A] : Solves(h, m, base, step)
    BY <2>3, <2>6
  <2> QED BY <2>7, SMT
<1>3. n \in S
  <2> HIDE DEF S
  <2> QED BY <1>1, <1>2, InductionTo, SMT
<1> QED BY <1>3

-----------------------------------------------------------------------------
(* Types.                                                                  *)

\* A queued buffer: no more of it is used than there is.
Buffers ==
    {b \in [tag : Tags, size : Nat, completed : Nat, mapped : BOOLEAN] :
        b.completed <= b.size}

\* What the driver may send: a MAP has the tag of a buffer.
Messages ==
    {m \in [op : {"map", "stop"}, ep : Endpoints, tag : Tags \cup {NoTag}] :
        m.op = "map" => m.tag \in Tags}

Places == {"idle", "start", "send", "full", "generate", "done"}

\* No more of a buffer is completed than there is, the FIFOs hold no more than
\* Depth words, and the counts never fall below zero.
TypeOK ==
    /\ buffers \in [Endpoints -> Seq(Buffers)]
    /\ toSIO \in Seq(Messages)
    /\ txcnt \in Nat /\ rxcnt \in Nat
    /\ txfifo \in 0 .. Depth /\ rxfifo \in 0 .. Depth
    /\ pc \in Places
    /\ failed \in BOOLEAN /\ short \in BOOLEAN /\ sound \in BOOLEAN

-----------------------------------------------------------------------------
(* Sequences of tags.                                                      *)

\* Concatenation, for the provers a name with the laws below.
Cat(a, b) == a \o b
One(e) == <<e>>

TagList(s) == [i \in DOMAIN s |-> s[i].tag]

FirstTags(q, i) == [k \in 1 .. i |-> q[k].tag]

LEMMA CatType == \A a, b \in Seq(Tags) : Cat(a, b) \in Seq(Tags)
BY SMT DEF Cat

LEMMA CatAssoc ==
    \A a, b, c \in Seq(Tags) : Cat(Cat(a, b), c) = Cat(a, Cat(b, c))
BY SMTT(20) DEF Cat

LEMMA CatNil == \A a \in Seq(Tags) : Cat(a, <<>>) = a /\ Cat(<<>>, a) = a
BY SMT DEF Cat

LEMMA OneType ==
    \A e \in Tags : One(e) \in Seq(Tags) /\ Len(One(e)) = 1
BY SMT DEF One

LEMMA AppendOne == \A e \in Tags, a \in Seq(Tags) : Append(a, e) = Cat(a, One(e))
BY SMT DEF One, Cat

LEMMA TagListCat ==
    ASSUME NEW T, NEW s \in Seq(T), NEW r \in Seq(T)
    PROVE  TagList(s \o r) = TagList(s) \o TagList(r)
<1>1. TagList(s) = [i \in 1 .. Len(s) |-> s[i].tag] /\ TagList(r) = [i \in 1 .. Len(r) |-> r[i].tag]
  BY SMT DEF TagList
<1>2. TagList(s \o r) = [i \in 1 .. Len(s) + Len(r) |-> (s \o r)[i].tag]
  BY SMT DEF TagList
<1>3. /\ Len(TagList(s)) = Len(s) /\ Len(TagList(r)) = Len(r)
      /\ Len(s) \in Nat /\ Len(r) \in Nat
  BY <1>1, SMT
<1> QED BY <1>1, <1>2, <1>3, SMT

LEMMA TagListOne == \A m : TagList(<<m>>) = <<m.tag>>
BY SMT DEF TagList

LEMMA TagListNone == TagList(<<>>) = <<>>
BY SMT DEF TagList

LEMMA BufferTagList ==
    ASSUME NEW q \in Seq(Buffers)
    PROVE  TagList(q) \in Seq(Tags) /\ TagList(q) = FirstTags(q, Len(q))
<1>1. TagList(q) = [k \in 1 .. Len(q) |-> q[k].tag] /\ Len(q) \in Nat
  BY SMT DEF TagList
<1>2. \A k \in 1 .. Len(q) : q[k].tag \in Tags
  BY SMT DEF Buffers
<1> QED BY <1>1, <1>2, SMT DEF FirstTags

LEMMA OneMoreBuffer ==
    ASSUME NEW q \in Seq(Buffers), NEW b \in Buffers
    PROVE  TagList(Append(q, b)) = Cat(TagList(q), One(b.tag)) /\ b.tag \in Tags
<1>1. b.tag \in Tags
  BY DEF Buffers
<1>2. Append(q, b) = q \o <<b>> /\ <<b>> \in Seq(Buffers)
  BY SMT
<1>3. PICK s : s = <<b>>
  BY Zenon
<1>4. TagList(q \o s) = TagList(q) \o TagList(s)
  BY <1>2, <1>3, TagListCat, Zenon
<1>5. TagList(s) = One(b.tag)
  BY <1>3, TagListOne DEF One
<1>6. TagList(Append(q, b)) = TagList(q) \o One(b.tag)
  BY <1>2, <1>3, <1>4, <1>5, ZenonT(30)
<1> QED BY <1>1, <1>6, ZenonT(30) DEF Cat

-----------------------------------------------------------------------------
(* Where the buffers are.                                                  *)

\* One more entry, if it is chosen.
Chosen(a, e, S) == IF e \in S THEN Append(a, e) ELSE a

OnlyTo(s, S) ==
    CHOOSE f : f = [i \in 0 .. Len(s) |->
                        IF i = 0 THEN <<>> ELSE Chosen(f[i - 1], s[i], S)]

\* No entry occurs twice.
Unique(s) == \A e : Len(Only(s, {e})) <= 1

\* The driver's list h, without the refused buffers E, is C followed by B, D, R.
Accounts(E, C, B, D, R, h) ==
    /\ E \in Seq(Tags) /\ C \in Seq(Tags) /\ B \in Seq(Tags)
    /\ D \in Seq(Tags) /\ R \in Seq(Tags) /\ h \in Seq(Tags)
    /\ Unique(h) /\ Unique(E) /\ Range(E) \subseteq Range(h)
    /\ Only(h, Tags \ Range(E)) = Cat(C, Cat(B, Cat(D, R)))

\* What the driver and the SIO send: but for a STOP and its end, a message has
\* the tag of a buffer.
Tagged == {"map", "complete", "error"}
Letters ==
    {m \in [op : Tagged \cup {"stop", "stopped"}, ep : Endpoints, tag : Tags \cup {NoTag}] :
        m.op \in Tagged => m.tag \in Tags}

Wanted(op, ep) == [op : {op}, ep : {ep}, tag : Tags \cup {NoTag}]

\* A queue has a message op of the endpoint; it has none of the endpoint; a
\* message op is the last one of the endpoint.
Has(q, op, ep) == \E i \in 1 .. Len(q) : q[i].op = op /\ q[i].ep = ep
Silent(q, ep) == \A i \in 1 .. Len(q) : q[i].ep # ep
LastOf(q, op, ep) ==
    \A i, j \in 1 .. Len(q) : i < j /\ q[i].op = op /\ q[i].ep = ep => q[j].ep # ep

\* The places of the buffers of ep, and what is known of a STOP: ap and sio are
\* the queues, B the tags of the buffers the SIO has, h the driver's list, st
\* the endpoints that are stopping.
Placed(ap, B, sio, h, st, ep) ==
    /\ ap \in Seq(Letters) /\ sio \in Seq(Letters)
    /\ LastOf(sio, "stop", ep) /\ LastOf(ap, "stopped", ep)
    /\ Has(sio, "stop", ep) => ep \in st
    /\ Has(ap, "stopped", ep) => ep \in st /\ Silent(sio, ep) /\ B = <<>>
    /\ \E R \in Seq(Tags) :
          /\ Accounts(TagsOf(ap, "error", ep), TagsOf(ap, "complete", ep), B,
                      TagsOf(sio, "map", ep), R, h)
          /\ R # <<>> => Has(ap, "stopped", ep)

\* m is what became of the buffers q: the first were used up, in order, and the
\* others remain.
InOrder(m, q) ==
    /\ m.rest \in Seq(Buffers) /\ m.done \in Seq(Tags)
    /\ TagList(q) = Cat(m.done, TagList(m.rest))

-----------------------------------------------------------------------------
(***************************************************************************)
(* Where the buffers of the driver are.  The inductive invariant: for each *)
(* endpoint, its messages, its buffers and the driver's list fit together. *)
(***************************************************************************)
AllPlaced ==
    /\ held \in [Endpoints -> Seq(Tags)]
    /\ \A ep \in Endpoints :
          Placed(toAP, TagList(buffers[ep]), toSIO, held[ep], stopping, ep)

\* AllPlaced holds at first, says what it should, and is kept by the driver's
\* steps, by what the SIO does with a message and on a reset; and by a transfer
\* that takes the buffers in their order.
LEMMA Placing ==
    /\ Init => AllPlaced
    /\ AllPlaced => BuffersAccounted
    /\ apple_sio_reset_hold => AllPlaced'
    /\ AllPlaced /\ DriverReceive => AllPlaced'
    /\ TypeOK /\ AllPlaced /\ apple_sio_handle_endpoint => AllPlaced'
    /\ \A e \in Endpoints :
           AllPlaced /\ ((\E tag \in Tags : DriverMap(e, tag)) \/ DriverStop(e)) => AllPlaced'
    /\ \A r, w :
           /\ AllPlaced
           /\ InOrder(r, buffers["tx"]) /\ InOrder(w, buffers["rx"]) /\ Transferred(r, w)
           /\ UNCHANGED <<toSIO, held, stopping>>
           => AllPlaced'
<1>AppendSome.
      ASSUME NEW T, NEW a \in Seq(T), NEW e \in T
      PROVE  Append(a, e) # <<>>
  <2> USE <1>AppendSome
  <2>1. Len(Append(a, e)) = Len(a) + 1 /\ Len(a) \in Nat /\ Len(<<>>) = 0
    BY SMT
  <2> QED BY <2>1, SMT
\* A set that has the empty sequence and, with each sequence, its extensions has
\* all sequences.
<1>SeqInduction.
      ASSUME NEW T, NEW Q, <<>> \in Q,
             \A s \in Seq(T), e \in T : s \in Q => Append(s, e) \in Q
      PROVE  Seq(T) \subseteq Q
  <2> USE <1>SeqInduction
  <2> SUFFICES ASSUME NEW z \in Seq(T) PROVE z \in Q
    OBVIOUS
  <2> DEFINE N == Len(z)
             S == {n \in 0 .. N : \A s \in Seq(T) : Len(s) = n => s \in Q}
  <2>0. N \in Nat
    BY SMT
  <2>1. 0 \in S
    <3>1. ASSUME NEW s \in Seq(T), Len(s) = 0 PROVE s \in Q
      <4>1. s = <<>>
        BY <3>1, SMT
      <4> QED BY <4>1
    <3> QED BY <2>0, <3>1, SMTT(20)
  <2>2. ASSUME NEW n \in 1 .. N, n - 1 \in S PROVE n \in S
    <3>1. ASSUME NEW s \in Seq(T), Len(s) = n PROVE s \in Q
      <4> DEFINE r == [i \in 1 .. n - 1 |-> s[i]]
      <4>1. r \in Seq(T) /\ Len(r) = n - 1 /\ s[n] \in T
        BY <3>1, SMT
      <4>2. s = Append(r, s[n])
        BY <3>1, SMT
      <4> HIDE DEF r
      <4>3. r \in Q
        BY <2>2, <4>1
      <4> QED BY <4>1, <4>2, <4>3, Zenon
    <3>2. n \in 0 .. N
      BY SMT
    <3> QED BY <3>1, <3>2
  <2>3. N \in S
    <3> HIDE DEF S, N
    <3>1. \A i \in 0 .. N : i \in S
      BY <2>0, <2>1, <2>2, InductionTo
    <3> QED BY <2>0, <3>1, SMT
  <2> QED BY <2>3
<1>OnlyIsOnlyTo. \A s, S : Only(s, S) = OnlyTo(s, S)[Len(s)]
  BY DEF Only, OnlyTo, Chosen
<1>OnlyToRec.
      ASSUME NEW T, NEW s \in Seq(T), NEW S
      PROVE  /\ OnlyTo(s, S) \in [0 .. Len(s) -> Seq(T)]
             /\ OnlyTo(s, S)[0] = <<>>
             /\ \A i \in 1 .. Len(s) :
                    OnlyTo(s, S)[i] = Chosen(OnlyTo(s, S)[i - 1], s[i], S)
  <2> USE <1>OnlyToRec
  <2> DEFINE n == Len(s)
             A == Seq(T)
             base == <<>>
             step == [x \in A \X (1 .. n) |-> Chosen(x[1], s[x[2]], S)]
             f == OnlyTo(s, S)
  <2>0. n \in Nat /\ base \in A /\ \A i \in 1 .. n : s[i] \in T
    BY SMT
  <2>1. ASSUME NEW a \in A, NEW i \in 1 .. n PROVE Chosen(a, s[i], S) \in A
    BY <2>0, SMT DEF Chosen
  <2>2. step \in [A \X (1 .. n) -> A]
    <3> HIDE DEF A
    <3> QED BY <2>1
  <2>3. PICK g \in [0 .. n -> A] : Solves(g, n, base, step)
    <3> HIDE DEF step, n, A, base
    <3> QED BY ONLY <2>0, <2>2, RecursionExists, Zenon
  <2>4. g = [i \in 0 .. n |-> IF i = 0 THEN base ELSE Chosen(g[i - 1], s[i], S)]
    <3>1. ASSUME NEW i \in 1 .. n
          PROVE  g[i] = Chosen(g[i - 1], s[i], S)
      <4>1. g[i - 1] \in A
        BY <2>0, SMTT(20)
      <4> HIDE DEF A
      <4>2. step[<<g[i - 1], i>>] = Chosen(g[i - 1], s[i], S)
        BY <4>1
      <4> QED BY <2>3, <4>2, Zenon DEF Solves
    <3> HIDE DEF base, A
    <3> QED BY <2>3, <3>1, SMT DEF Solves
  <2>5. f = [i \in 0 .. n |-> IF i = 0 THEN base ELSE Chosen(f[i - 1], s[i], S)]
    BY <2>4, Zenon DEF OnlyTo
  <2> HIDE DEF f, base, A, n
  <2>6. f[0] = base /\ \A i \in 1 .. n : f[i] = Chosen(f[i - 1], s[i], S)
    BY <2>0, <2>5, SMT
  <2>7. \A i \in 0 .. n : f[i] \in A
    <3> DEFINE I == {i \in 0 .. n : f[i] \in A}
    <3>1. 0 \in I
      BY <2>0, <2>6, SMT
    <3>2. ASSUME NEW i \in 1 .. n, i - 1 \in I PROVE i \in I
      <4>1. f[i - 1] \in A /\ f[i] = Chosen(f[i - 1], s[i], S)
        BY <2>6, <3>2
      <4> QED BY <2>0, <2>1, <4>1, SMT
    <3> HIDE DEF I
    <3>3. \A i \in 0 .. n : i \in I
      BY <2>0, <3>1, <3>2, InductionTo, Zenon
    <3> QED BY <3>3 DEF I
  <2>8. f \in [0 .. n -> A]
    BY <2>5, <2>7
  <2> QED BY <2>6, <2>8 DEF f, n, A, base
<1>OnlyType.
      ASSUME NEW T, NEW s \in Seq(T), NEW S
      PROVE  Only(s, S) \in Seq(T)
  <2> USE <1>OnlyType
  <2> DEFINE n == Len(s)
  <2>1. n \in 0 .. n
    BY SMT
  <2>2. OnlyTo(s, S) \in [0 .. n -> Seq(T)]
    BY <1>OnlyToRec
  <2> HIDE DEF n
  <2>3. OnlyTo(s, S)[n] \in Seq(T)
    BY <2>1, <2>2
  <2> QED BY <2>3, <1>OnlyIsOnlyTo DEF n
<1>OnlyEmpty. \A S : Only(<<>>, S) = <<>>
  <2> TAKE S
  <2>1. <<>> \in Seq({}) /\ Len(<<>>) = 0
    BY SMT
  <2> QED BY <2>1, <1>OnlyToRec, <1>OnlyIsOnlyTo, Zenon
<1>OnlyAppend.
      ASSUME NEW T, NEW s \in Seq(T), NEW e \in T, NEW S
      PROVE  Only(Append(s, e), S) = IF e \in S THEN Append(Only(s, S), e) ELSE Only(s, S)
  <2> USE <1>OnlyAppend
  <2> DEFINE n == Len(s)
             p == Append(s, e)
             I == {i \in 0 .. n : OnlyTo(p, S)[i] = OnlyTo(s, S)[i]}
  <2>1. /\ p \in Seq(T) /\ Len(p) = n + 1 /\ p[n + 1] = e
        /\ \A i \in 1 .. n : p[i] = s[i]
    BY SMT
  <2>2. n \in Nat /\ n + 1 \in 1 .. n + 1 /\ \A i \in 1 .. n : i \in 1 .. n + 1
    BY SMT
  <2> HIDE DEF p, n
  <2>3. 0 \in I
    <3>1. OnlyTo(p, S)[0] = <<>> /\ OnlyTo(s, S)[0] = <<>>
      BY <2>1, <1>OnlyToRec
    <3> QED BY <2>2, <3>1, SMT
  <2>4. ASSUME NEW i \in 1 .. n, i - 1 \in I PROVE i \in I
    <3>1. OnlyTo(p, S)[i] = Chosen(OnlyTo(p, S)[i - 1], p[i], S)
      BY <2>1, <2>2, <1>OnlyToRec, SMTT(20)
    <3>2. OnlyTo(s, S)[i] = Chosen(OnlyTo(s, S)[i - 1], s[i], S)
      BY <1>OnlyToRec DEF n
    <3> QED BY <2>1, <2>2, <2>4, <3>1, <3>2, SMTT(20)
  <2>5. n \in I
    <3> HIDE DEF I
    <3>1. \A i \in 0 .. n : i \in I
      BY <2>2, <2>3, <2>4, InductionTo
    <3> QED BY <2>2, <3>1, SMT
  <2>6. OnlyTo(p, S)[n + 1] = Chosen(OnlyTo(p, S)[(n + 1) - 1], p[n + 1], S)
    BY <2>1, <2>2, <1>OnlyToRec, ZenonT(30)
  <2>7. (n + 1) - 1 = n
    BY <2>2, SMT
  <2>8. Only(p, S) = Chosen(OnlyTo(s, S)[n], e, S)
    BY <2>1, <2>5, <2>6, <2>7, <1>OnlyIsOnlyTo
  <2> QED BY <2>8, <1>OnlyIsOnlyTo DEF n, p, Chosen
<1>OnlyCat. ASSUME NEW T, NEW s \in Seq(T), NEW r \in Seq(T), NEW S
            PROVE  Only(s \o r, S) = Only(s, S) \o Only(r, S)
  <2> USE <1>OnlyCat
  <2> DEFINE Q == {x \in Seq(T) : Only(s \o x, S) = Only(s, S) \o Only(x, S)}
  <2>1. <<>> \in Q
    <3>1. <<>> \in Seq(T) /\ s \o <<>> = s
      BY SMT
    <3>2. Only(s, S) \o <<>> = Only(s, S)
      BY <1>OnlyType, SMT
    <3> QED BY <3>1, <3>2, <1>OnlyEmpty, Zenon
  <2>2. ASSUME NEW x \in Seq(T), NEW e \in T, x \in Q PROVE Append(x, e) \in Q
    <3>1. Append(x, e) \in Seq(T) /\ s \o x \in Seq(T) /\ s \o Append(x, e) = Append(s \o x, e)
      BY SMT
    <3> DEFINE a == Only(s, S)
               b == Only(x, S)
    <3>2. a \in Seq(T) /\ b \in Seq(T)
      BY <1>OnlyType
    <3> HIDE DEF a, b
    <3>3. a \o Append(b, e) = Append(a \o b, e)
      BY <3>2, SMTT(20)
    <3>4. Only(s \o x, S) = a \o b
      BY <2>2 DEF a, b
    <3>5. Only(Append(x, e), S) = IF e \in S THEN Append(b, e) ELSE b
      BY <1>OnlyAppend DEF b
    <3>6. Only(Append(s \o x, e), S) = IF e \in S THEN Append(Only(s \o x, S), e) ELSE Only(s \o x, S)
      BY <3>1, <1>OnlyAppend, Zenon
    <3>7. Only(Append(s \o x, e), S) = a \o Only(Append(x, e), S)
      BY <3>3, <3>4, <3>5, <3>6, Zenon
    <3> QED BY <3>1, <3>7, Zenon DEF a
  <2> HIDE DEF Q
  <2>3. r \in Q
    BY <2>1, <2>2, <1>SeqInduction
  <2> QED BY <2>3 DEF Q
<1>OnlyOne. ASSUME NEW e, NEW S
            PROVE  Only(<<e>>, S) = IF e \in S THEN <<e>> ELSE <<>>
  <2> USE <1>OnlyOne
  <2>1. <<>> \in Seq({e}) /\ e \in {e} /\ Append(<<>>, e) = <<e>>
    BY SMT
  <2>2. Only(Append(<<>>, e), S) = IF e \in S THEN Append(Only(<<>>, S), e) ELSE Only(<<>>, S)
    BY <2>1, <1>OnlyAppend, ZenonT(30)
  <2> QED BY <2>1, <2>2, <1>OnlyEmpty
\* Choosing twice is choosing from both sets.
<1>OnlyTwice.
      ASSUME NEW T, NEW s \in Seq(T), NEW S, NEW R
      PROVE  Only(Only(s, S), R) = Only(s, S \cap R)
  <2> USE <1>OnlyTwice
  <2> DEFINE Q == {x \in Seq(T) : Only(Only(x, S), R) = Only(x, S \cap R)}
  <2>1. <<>> \in Q
    <3>1. <<>> \in Seq(T)
      BY SMT
    <3> QED BY <3>1, <1>OnlyEmpty
  <2>2. ASSUME NEW x \in Seq(T), NEW e \in T, x \in Q PROVE Append(x, e) \in Q
    <3>1. Append(x, e) \in Seq(T)
      BY SMT
    <3>2. Only(x, S) \in Seq(T)
      BY <1>OnlyType
    <3>3. Only(Append(x, e), S) = IF e \in S THEN Append(Only(x, S), e) ELSE Only(x, S)
      BY <1>OnlyAppend
    <3>4. Only(Append(x, e), S \cap R) = IF e \in S \cap R THEN Append(Only(x, S \cap R), e)
                                         ELSE Only(x, S \cap R)
      BY <1>OnlyAppend, SMT
    <3>5. Only(Append(Only(x, S), e), R) = IF e \in R THEN Append(Only(Only(x, S), R), e)
                                           ELSE Only(Only(x, S), R)
      BY <3>2, <1>OnlyAppend, SMT
    <3>6. Only(Only(x, S), R) = Only(x, S \cap R)
      BY <2>2
    <3>7. Only(Only(Append(x, e), S), R) = Only(Append(x, e), S \cap R)
      <4>1. CASE e \in S /\ e \in R
        <5>1. e \in S \cap R
          BY <4>1
        <5> QED BY <3>3, <3>4, <3>5, <3>6, <4>1, <5>1, Zenon
      <4>2. CASE e \in S /\ e \notin R
        <5>1. e \notin S \cap R
          BY <4>2
        <5> QED BY <3>3, <3>4, <3>5, <3>6, <4>2, <5>1, ZenonT(30)
      <4>3. CASE e \notin S
        <5>1. e \notin S \cap R
          BY <4>3
        <5> QED BY <3>3, <3>4, <3>6, <4>3, <5>1, ZenonT(30)
      <4> QED BY <4>1, <4>2, <4>3
    <3> QED BY <3>1, <3>7
  <2> HIDE DEF Q
  <2>3. s \in Q
    BY <2>1, <2>2, <1>SeqInduction
  <2> QED BY <2>3 DEF Q
\* Something of S is chosen exactly if an entry is in S.
<1>OnlySome.
      ASSUME NEW T, NEW s \in Seq(T), NEW S
      PROVE  Only(s, S) # <<>> <=> \E i \in 1 .. Len(s) : s[i] \in S
  <2> USE <1>OnlySome
  <2> DEFINE P(x) == Only(x, S) # <<>> <=> \E i \in 1 .. Len(x) : x[i] \in S
             Q == {x \in Seq(T) : P(x)}
  <2>1. <<>> \in Q
    <3>1. <<>> \in Seq(T) /\ Len(<<>>) = 0
      BY SMT
    <3>2. ~\E i \in 1 .. Len(<<>>) : <<>>[i] \in S
      BY <3>1, SMT
    <3> QED BY <3>1, <3>2, <1>OnlyEmpty
  <2>2. ASSUME NEW x \in Seq(T), NEW e \in T, x \in Q PROVE Append(x, e) \in Q
    <3>1. /\ Append(x, e) \in Seq(T) /\ Len(Append(x, e)) = Len(x) + 1
          /\ Append(x, e)[Len(x) + 1] = e /\ \A i \in 1 .. Len(x) : Append(x, e)[i] = x[i]
          /\ Len(x) \in Nat
      BY SMT
    <3>2. Append(Only(x, S), e) # <<>>
      BY <1>OnlyType, <1>AppendSome
    <3>4. Only(Append(x, e), S) = IF e \in S THEN Append(Only(x, S), e) ELSE Only(x, S)
      BY <1>OnlyAppend
    <3>5. P(x)
      BY <2>2
    <3> DEFINE y == Append(x, e)
    <3>6. (\E i \in 1 .. Len(y) : y[i] \in S) <=> e \in S \/ \E i \in 1 .. Len(x) : x[i] \in S
      <4> HIDE DEF y
      <4> QED BY <3>1, SMT DEF y
    <3>7. P(y)
      <4> HIDE DEF y
      <4>1. Only(y, S) # <<>> <=> e \in S \/ Only(x, S) # <<>>
        BY <3>2, <3>4 DEF y
      <4> QED BY <3>5, <3>6, <4>1
    <3> QED BY <3>1, <3>7, Zenon
  <2> HIDE DEF Q, P
  <2>3. s \in Q
    BY <2>1, <2>2, <1>SeqInduction
  <2> QED BY <2>3 DEF Q, P
<1>OnlyInRange.
      ASSUME NEW T, NEW s \in Seq(T)
      PROVE  /\ Range(s) \subseteq T
             /\ \A e : e \in Range(s) <=> Only(s, {e}) # <<>>
  <2> USE <1>OnlyInRange
  <2>1. Range(s) \subseteq T
    BY SMT DEF Range
  <2>2. ASSUME NEW e PROVE e \in Range(s) <=> Only(s, {e}) # <<>>
    <3>1. Only(s, {e}) # <<>> <=> \E i \in 1 .. Len(s) : s[i] \in {e}
      BY <1>OnlySome
    <3> QED BY <3>1, SMT DEF Range
  <2> QED BY <2>1, <2>2
<1>OnlyNone.
      ASSUME NEW T, NEW s \in Seq(T)
      PROVE  Only(s, {}) = <<>>
  BY <1>OnlyNone, <1>OnlySome, SMT
<1>RangeOnly.
      ASSUME NEW T, NEW s \in Seq(T), NEW S
      PROVE  Range(Only(s, S)) = Range(s) \cap S
  <2> USE <1>RangeOnly
  <2> SUFFICES ASSUME NEW e PROVE e \in Range(Only(s, S)) <=> e \in Range(s) /\ e \in S
    OBVIOUS
  <2>1. Only(s, S) \in Seq(T)
    BY <1>OnlyType
  <2>2. e \in Range(Only(s, S)) <=> Only(Only(s, S), {e}) # <<>>
    BY <2>1, <1>OnlyInRange
  <2>3. Only(Only(s, S), {e}) = Only(s, S \cap {e})
    BY <1>OnlyTwice, SMT
  <2>4. S \cap {e} = IF e \in S THEN {e} ELSE {}
    OBVIOUS
  <2>5. e \in Range(s) <=> Only(s, {e}) # <<>>
    BY <1>OnlyInRange
  <2>6. Only(s, {}) = <<>>
    BY <1>OnlyNone
  <2> QED BY <2>2, <2>3, <2>4, <2>5, <2>6, Zenon
<1>TagsType.
      \A s \in Seq(Tags) : \A S : Only(s, S) \in Seq(Tags) /\ Len(Only(s, S)) \in Nat
  <2> SUFFICES ASSUME NEW s \in Seq(Tags), NEW S
               PROVE  Only(s, S) \in Seq(Tags) /\ Len(Only(s, S)) \in Nat
    OBVIOUS
  <2>1. PICK o : o = Only(s, S)
    OBVIOUS
  <2>2. o \in Seq(Tags)
    BY <2>1, <1>OnlyType
  <2>3. Len(o) \in Nat
    BY <2>2, SMT
  <2> QED BY <2>1, <2>2, <2>3
<1>TagsCat. \A s, r \in Seq(Tags) : \A S : Only(Cat(s, r), S) = Cat(Only(s, S), Only(r, S))
  BY <1>OnlyCat, SMT DEF Cat
<1>TagsOne. \A e \in Tags : \A S : Only(One(e), S) = IF e \in S THEN One(e) ELSE <<>>
  BY <1>OnlyOne, Zenon DEF One
<1>TagsTwice.
      \A s \in Seq(Tags) : \A S, R : Only(Only(s, S), R) = Only(s, S \cap R)
  BY <1>OnlyTwice, Zenon
<1>TagsUnique.
      \A s \in Seq(Tags) : \A S : Unique(s) => Unique(Only(s, S))
  <2>UniqueOnly.
        ASSUME NEW T, NEW s \in Seq(T), NEW S, Unique(s)
        PROVE  Unique(Only(s, S))
    <3> USE <2>UniqueOnly
    <3> SUFFICES ASSUME NEW e PROVE Len(Only(Only(s, S), {e})) <= 1
      BY Zenon DEF Unique
    <3>1. Only(Only(s, S), {e}) = Only(s, S \cap {e})
      BY <1>OnlyTwice, SMT
    <3>2. S \cap {e} = {e} \/ S \cap {e} = {}
      OBVIOUS
    <3>3. Only(s, {}) = <<>> /\ Len(<<>>) <= 1
      BY <1>OnlyNone, SMT
    <3> QED BY <3>1, <3>2, <3>3, Zenon DEF Unique
  <2>TagsUnique. \A s \in Seq(Tags) : \A S : Unique(s) => Unique(Only(s, S))
    BY <2>UniqueOnly
  <2> QED BY <2>TagsUnique
<1>TagsInRange.
      \A s \in Seq(Tags) : /\ Range(s) \subseteq Tags
                           /\ \A e : e \in Range(s) <=> Only(s, {e}) # <<>>
  BY <1>OnlyInRange
<1>TagsRangeOnly. \A s \in Seq(Tags) : \A S : Range(Only(s, S)) = Range(s) \cap S
  BY <1>RangeOnly
<1>CatEmptyBoth.
      \A a, b \in Seq(Tags) : Cat(a, b) = <<>> <=> a = <<>> /\ b = <<>>
  BY SMT DEF Cat
<1>RangeCat. \A a, b \in Seq(Tags) : Range(Cat(a, b)) = Range(a) \cup Range(b)
  <2> SUFFICES ASSUME NEW a \in Seq(Tags), NEW b \in Seq(Tags), NEW e
               PROVE  e \in Range(Cat(a, b)) <=> e \in Range(a) \/ e \in Range(b)
    OBVIOUS
  <2>1. Cat(a, b) \in Seq(Tags)
    BY CatType
  <2>2. Only(Cat(a, b), {e}) = Cat(Only(a, {e}), Only(b, {e}))
    BY <1>TagsCat, SMT
  <2>3. Only(a, {e}) \in Seq(Tags) /\ Only(b, {e}) \in Seq(Tags)
    BY <1>TagsType
  <2>4. Only(Cat(a, b), {e}) = <<>> <=> Only(a, {e}) = <<>> /\ Only(b, {e}) = <<>>
    BY <2>2, <2>3, <1>CatEmptyBoth
  <2>5. e \in Range(Cat(a, b)) <=> Only(Cat(a, b), {e}) # <<>>
    BY <2>1, <1>TagsInRange
  <2>6. (e \in Range(a) <=> Only(a, {e}) # <<>>) /\ (e \in Range(b) <=> Only(b, {e}) # <<>>)
    BY <1>TagsInRange
  <2> QED BY <2>4, <2>5, <2>6
<1>RangeOne. \A e \in Tags : Range(One(e)) = {e}
  <2> SUFFICES ASSUME NEW e \in Tags PROVE Range(<<e>>) = {e}
    BY DEF One
  <2>1. DOMAIN <<e>> = {1} /\ <<e>>[1] = e
    BY SMT
  <2> QED BY <2>1 DEF Range
\* What stands once can be taken out of the middle.
<1>TakeOut. \A a, b \in Seq(Tags), t \in Tags :
                Unique(Cat(a, Cat(One(t), b))) =>
                    /\ Only(Cat(a, Cat(One(t), b)), Tags \ {t}) = Cat(a, b)
                    /\ t \notin Range(a) /\ t \notin Range(b)
  <2>CatLen. \A a, b \in Seq(Tags) : Len(Cat(a, b)) = Len(a) + Len(b)
    BY SMT DEF Cat
  \* If nothing is chosen of S, what is not of S is everything.
  <2>OnlyOthers.
        ASSUME NEW T, NEW s \in Seq(T), NEW S, Only(s, S) = <<>>
        PROVE  Only(s, T \ S) = s
    <3> USE <2>OnlyOthers
    <3> DEFINE Q == {x \in Seq(T) : Only(x, S) = <<>> => Only(x, T \ S) = x}
    <3>1. <<>> \in Q
      <4>1. <<>> \in Seq(T)
        BY SMT
      <4> QED BY <4>1, <1>OnlyEmpty
    <3>2. ASSUME NEW x \in Seq(T), NEW e \in T, x \in Q PROVE Append(x, e) \in Q
      <4>1. Append(x, e) \in Seq(T)
        BY SMT
      <4> DEFINE y == Append(x, e)
      <4> HIDE DEF y
      <4> SUFFICES ASSUME Only(y, S) = <<>> PROVE Only(y, T \ S) = y
        BY <4>1, Zenon DEF y
      <4>3. Append(Only(x, S), e) # <<>>
        BY <1>OnlyType, <1>AppendSome
      <4>4. Only(Append(x, e), S) = IF e \in S THEN Append(Only(x, S), e) ELSE Only(x, S)
        BY <1>OnlyAppend, SMT
      <4>5. e \notin S /\ Only(x, S) = <<>>
        BY <4>3, <4>4 DEF y
      <4>6. Only(Append(x, e), T \ S) = IF e \in T \ S THEN Append(Only(x, T \ S), e) ELSE Only(x, T \ S)
        BY <1>OnlyAppend, SMTT(20)
      <4>7. Only(x, T \ S) = x
        BY <3>2, <4>5
      <4>8. e \in T \ S
        BY <4>5
      <4> QED BY <4>6, <4>7, <4>8, Zenon DEF y
    <3> HIDE DEF Q
    <3>3. s \in Q
      BY <3>1, <3>2, <1>SeqInduction
    <3> QED BY <3>3 DEF Q
  <2>TagsOthers.
        \A s \in Seq(Tags) : \A S : Only(s, S) = <<>> => Only(s, Tags \ S) = s
    BY <2>OnlyOthers
  <2>TakeOut. ASSUME NEW a \in Seq(Tags), NEW t \in Tags, NEW b \in Seq(Tags),
                     Unique(Cat(a, Cat(One(t), b)))
              PROVE  /\ Only(Cat(a, Cat(One(t), b)), Tags \ {t}) = Cat(a, b)
                     /\ t \notin Range(a) /\ t \notin Range(b)
    <3> USE <2>TakeOut
    <3>1. One(t) \in Seq(Tags) /\ Cat(One(t), b) \in Seq(Tags)
      BY OneType, CatType
    <3>2. ASSUME NEW S
          PROVE  Only(Cat(a, Cat(One(t), b)), S) = Cat(Only(a, S), Cat(Only(One(t), S), Only(b, S)))
      BY <3>1, <1>TagsCat, SMT
    <3>3. Only(One(t), {t}) = One(t) /\ Only(One(t), Tags \ {t}) = <<>>
      BY <1>TagsOne
    <3>4. Only(a, {t}) \in Seq(Tags) /\ Only(b, {t}) \in Seq(Tags)
      BY <1>TagsType
    <3>5. Len(Cat(Only(a, {t}), Cat(One(t), Only(b, {t})))) <= 1
      <4>1. Only(Cat(a, Cat(One(t), b)), {t}) = Cat(Only(a, {t}), Cat(One(t), Only(b, {t})))
        BY <3>2, <3>3, Zenon
      <4> QED BY <4>1, Zenon DEF Unique
    <3>6. Len(Only(a, {t})) + (1 + Len(Only(b, {t}))) <= 1
      <4>1. Len(Cat(One(t), Only(b, {t}))) = 1 + Len(Only(b, {t}))
        BY <3>1, <3>4, <2>CatLen, OneType, ZenonT(30)
      <4>2. Cat(One(t), Only(b, {t})) \in Seq(Tags)
        BY <3>1, <3>4, CatType
      <4>3. Len(Cat(Only(a, {t}), Cat(One(t), Only(b, {t}))))
                = Len(Only(a, {t})) + Len(Cat(One(t), Only(b, {t})))
        BY <3>4, <4>2, <2>CatLen
      <4> QED BY <3>5, <4>1, <4>3
    <3>7. Only(a, {t}) = <<>> /\ Only(b, {t}) = <<>>
      <4>1. PICK p \in Seq(Tags) : p = Only(a, {t})
        BY <3>4
      <4>2. PICK r \in Seq(Tags) : r = Only(b, {t})
        BY <3>4
      <4>3. Len(p) + (1 + Len(r)) <= 1
        BY <3>6, <4>1, <4>2
      <4>4. Len(p) = 0 /\ Len(r) = 0
        BY <4>3, SMT
      <4>5. p = <<>> /\ r = <<>>
        BY <4>4, SMT
      <4> QED BY <4>1, <4>2, <4>5
    <3>8. Only(a, Tags \ {t}) = a /\ Only(b, Tags \ {t}) = b
      BY <3>7, <2>TagsOthers
    <3>9. Only(Cat(a, Cat(One(t), b)), Tags \ {t}) = Cat(a, Cat(<<>>, b))
      BY <3>2, <3>3, <3>8
    <3>10. t \notin Range(a) /\ t \notin Range(b)
      BY <3>7, <1>TagsInRange
    <3> QED BY <3>9, <3>10, CatNil
  <2> QED BY <2>TakeOut
<1>UniqueMore.
      ASSUME NEW s \in Seq(Tags), NEW t \in Tags, Unique(s), t \notin Range(s)
      PROVE  Unique(Cat(s, One(t)))
  <2> USE <1>UniqueMore
  <2> SUFFICES ASSUME NEW e PROVE Len(Only(Cat(s, One(t)), {e})) <= 1
    BY Zenon DEF Unique
  <2>1. Only(Cat(s, One(t)), {e}) = Cat(Only(s, {e}), Only(One(t), {e}))
    BY OneType, <1>TagsCat, SMT
  <2>2. CASE t = e
    <3>1. Only(s, {e}) = <<>> /\ Only(One(t), {e}) = One(t)
      BY <2>2, <1>TagsInRange, <1>TagsOne
    <3>2. Cat(<<>>, One(t)) = One(t)
      BY OneType, CatNil
    <3>3. Only(Cat(s, One(t)), {e}) = One(t)
      BY <2>1, <3>1, <3>2, Zenon
    <3>4. Len(One(t)) = 1
      BY OneType
    <3>5. Len(Only(Cat(s, One(t)), {e})) = 1
      BY <3>3, <3>4, ZenonT(30)
    <3> QED BY <3>5, SMTT(20)
  <2>3. CASE t # e
    <3>1. Only(One(t), {e}) = <<>>
      BY <2>3, <1>TagsOne
    <3>2. Only(s, {e}) \in Seq(Tags)
      BY <1>TagsType
    <3>3. Only(Cat(s, One(t)), {e}) = Only(s, {e})
      BY <2>1, <3>1, <3>2, CatNil
    <3> QED BY <3>3, Zenon DEF Unique
  <2> QED BY <2>2, <2>3
<1>AccountsNone. Accounts(<<>>, <<>>, <<>>, <<>>, <<>>, <<>>)
  <2>1. <<>> \in Seq(Tags) /\ Len(<<>>) <= 1 /\ Range(<<>>) \subseteq Range(<<>>)
    BY SMT
  <2>2. Unique(<<>>)
    BY <2>1, <1>OnlyEmpty DEF Unique
  <2>3. Cat(<<>>, Cat(<<>>, Cat(<<>>, <<>>))) = <<>>
    BY SMT DEF Cat
  <2> QED BY <2>1, <2>2, <2>3, <1>OnlyEmpty DEF Accounts
<1>TagsOfIs. \A q, op, ep : TagsOf(q, op, ep) = TagList(Only(q, Wanted(op, ep)))
  BY DEF TagsOf, TagList, Wanted
<1>WantedLetters.
      \A m \in Letters : \A op, ep : m \in Wanted(op, ep) <=> m.op = op /\ m.ep = ep
  BY DEF Letters, Wanted
\* With the names for concatenation.
<1>TagsOfCats.
          \A p, q \in Seq(Letters) : \A op, ep :
              TagsOf(p \o q, op, ep) = Cat(TagsOf(p, op, ep), TagsOf(q, op, ep))
  \* The tags of the messages wanted, of two queues and of one message.
  <2>TagsOfCat.
        ASSUME NEW p \in Seq(Letters), NEW q \in Seq(Letters), NEW op, NEW ep
        PROVE  TagsOf(p \o q, op, ep) = TagsOf(p, op, ep) \o TagsOf(q, op, ep)
    <3> USE <2>TagsOfCat
    <3>1. PICK a : a = Only(p, Wanted(op, ep))
      OBVIOUS
    <3>2. PICK b : b = Only(q, Wanted(op, ep))
      OBVIOUS
    <3>3. a \in Seq(Letters) /\ b \in Seq(Letters)
      BY <3>1, <3>2, <1>OnlyType
    <3>4. Only(p \o q, Wanted(op, ep)) = a \o b
      <4>1. Only(p \o q, Wanted(op, ep)) = Only(p, Wanted(op, ep)) \o Only(q, Wanted(op, ep))
        BY <1>OnlyCat, SMT
      <4> QED BY <3>1, <3>2, <4>1, Zenon
    <3>5. TagList(a \o b) = TagList(a) \o TagList(b)
      BY <3>3, TagListCat, Zenon
    <3> QED BY <3>1, <3>2, <3>4, <3>5, <1>TagsOfIs, Zenon
  <2>TagsOfCats.
        ASSUME NEW p \in Seq(Letters), NEW q \in Seq(Letters), NEW op, NEW ep
        PROVE  TagsOf(p \o q, op, ep) = Cat(TagsOf(p, op, ep), TagsOf(q, op, ep))
    <3> USE <2>TagsOfCats
    <3>1. TagsOf(p \o q, op, ep) = TagsOf(p, op, ep) \o TagsOf(q, op, ep)
      BY <2>TagsOfCat, SMT
    <3> QED BY <3>1 DEF Cat
  <2> QED BY <2>TagsOfCats
<1>TagsOfOne.
      ASSUME NEW m \in Letters, NEW op, NEW ep
      PROVE  TagsOf(<<m>>, op, ep) = IF m.op = op /\ m.ep = ep THEN One(m.tag) ELSE <<>>
  <2> USE <1>TagsOfOne
  <2>1. m \in Wanted(op, ep) <=> m.op = op /\ m.ep = ep
    BY <1>WantedLetters
  <2>2. Only(<<m>>, Wanted(op, ep)) = IF m \in Wanted(op, ep) THEN <<m>> ELSE <<>>
    BY <1>OnlyOne
  <2> QED BY <2>1, <2>2, TagListOne, TagListNone, <1>TagsOfIs, ZenonT(30) DEF One
<1>TagsOfNone. \A op, ep : TagsOf(<<>>, op, ep) = <<>>
  BY <1>OnlyEmpty, TagListNone, <1>TagsOfIs, ZenonT(30)
<1>TagsOfType.
      ASSUME NEW q \in Seq(Letters), NEW op \in Tagged, NEW ep
      PROVE  TagsOf(q, op, ep) \in Seq(Tags)
  <2> USE <1>TagsOfType
  <2>1. PICK s : s = Only(q, Wanted(op, ep))
    OBVIOUS
  <2>2. s \in Seq(Letters)
    BY <2>1, <1>OnlyType
  <2>3. Range(s) \subseteq Wanted(op, ep)
    BY <2>1, <1>RangeOnly, SMTT(20)
  <2>4. ASSUME NEW i \in 1 .. Len(s) PROVE s[i].tag \in Tags
    <3>1. s[i] \in Letters /\ s[i] \in Wanted(op, ep)
      BY <2>2, <2>3, SMTT(20) DEF Range
    <3>2. s[i].op = op
      BY <3>1 DEF Wanted
    <3> QED BY <3>1, <3>2 DEF Letters
  <2>5. TagList(s) \in Seq(Tags)
    <3>1. TagList(s) = [i \in 1 .. Len(s) |-> s[i].tag] /\ Len(s) \in Nat
      BY <2>2, SMT DEF TagList
    <3> QED BY <2>4, <3>1, SMT
  <2> QED BY <2>1, <2>5, <1>TagsOfIs
<1>TagsOfSome.
      ASSUME NEW q \in Seq(Letters), NEW op, NEW ep
      PROVE  TagsOf(q, op, ep) # <<>> <=> \E i \in 1 .. Len(q) : q[i].op = op /\ q[i].ep = ep
  <2> USE <1>TagsOfSome
  <2>1. PICK s : s = Only(q, Wanted(op, ep))
    OBVIOUS
  <2>2. s \in Seq(Letters)
    BY <2>1, <1>OnlyType
  <2>3. s # <<>> <=> \E i \in 1 .. Len(q) : q[i] \in Wanted(op, ep)
    BY <2>1, <1>OnlySome
  <2>4. TagList(s) # <<>> <=> s # <<>>
    BY <2>2, SMTT(20) DEF TagList
  <2>5. \A i \in 1 .. Len(q) : q[i] \in Wanted(op, ep) <=> q[i].op = op /\ q[i].ep = ep
    BY <1>WantedLetters, SMT
  <2> QED BY <2>1, <2>3, <2>4, <2>5, <1>TagsOfIs
\* The queue after one more message, and before the first was taken.
<1>TagsOfAppend.
      ASSUME NEW q \in Seq(Letters), NEW m \in Letters, NEW op \in Tagged, NEW ep
      PROVE  /\ Append(q, m) \in Seq(Letters)
             /\ TagsOf(Append(q, m), op, ep)
                    = IF m.op = op /\ m.ep = ep THEN Cat(TagsOf(q, op, ep), One(m.tag))
                      ELSE TagsOf(q, op, ep)
  <2> USE <1>TagsOfAppend
  <2>1. Append(q, m) = q \o <<m>> /\ <<m>> \in Seq(Letters) /\ Append(q, m) \in Seq(Letters)
    BY SMT
  <2>2. TagsOf(q \o <<m>>, op, ep) = Cat(TagsOf(q, op, ep), TagsOf(<<m>>, op, ep))
    <3>1. PICK s : s = <<m>>
      BY Zenon
    <3>2. s \in Seq(Letters)
      BY <2>1, <3>1
    <3>3. TagsOf(q \o s, op, ep) = Cat(TagsOf(q, op, ep), TagsOf(s, op, ep))
      BY <3>2, <1>TagsOfCats, SMTT(20)
    <3> QED BY <3>1, <3>3, Zenon
  <2>3. TagsOf(<<m>>, op, ep) = IF m.op = op /\ m.ep = ep THEN One(m.tag) ELSE <<>>
    BY <1>TagsOfOne
  <2>4. Cat(TagsOf(q, op, ep), <<>>) = TagsOf(q, op, ep)
    BY <1>TagsOfType, CatNil, SMT
  <2>5. TagsOf(Append(q, m), op, ep) = Cat(TagsOf(q, op, ep), TagsOf(<<m>>, op, ep))
    BY <2>1, <2>2, ZenonT(30)
  <2> QED BY <2>1, <2>3, <2>4, <2>5, Zenon
<1>TagsOfTail.
      ASSUME NEW q \in Seq(Letters), q # <<>>, NEW op \in Tagged, NEW ep
      PROVE  /\ Head(q) \in Letters /\ Tail(q) \in Seq(Letters)
             /\ TagsOf(q, op, ep)
                    = IF Head(q).op = op /\ Head(q).ep = ep
                      THEN Cat(One(Head(q).tag), TagsOf(Tail(q), op, ep))
                      ELSE TagsOf(Tail(q), op, ep)
  <2> USE <1>TagsOfTail
  <2>1. PICK m : m = Head(q)
    OBVIOUS
  <2>2. PICK r : r = Tail(q)
    BY Zenon
  <2>3. m \in Letters /\ r \in Seq(Letters) /\ <<m>> \in Seq(Letters)
    BY <2>1, <2>2, SMTT(20)
  <2>4. q = <<m>> \o r
    BY <2>1, <2>2, SMT
  <2>5. TagsOf(<<m>> \o r, op, ep) = Cat(TagsOf(<<m>>, op, ep), TagsOf(r, op, ep))
    <3>1. PICK s : s = <<m>>
      BY ZenonT(30)
    <3>2. s \in Seq(Letters)
      BY <2>3, <3>1
    <3>3. TagsOf(s \o r, op, ep) = Cat(TagsOf(s, op, ep), TagsOf(r, op, ep))
      BY <2>3, <3>2, <1>TagsOfCats, SMTT(20)
    <3> QED BY <3>1, <3>3, Zenon
  <2>6. TagsOf(<<m>>, op, ep) = IF m.op = op /\ m.ep = ep THEN One(m.tag) ELSE <<>>
    BY <2>3, <1>TagsOfOne
  <2>7. Cat(<<>>, TagsOf(r, op, ep)) = TagsOf(r, op, ep)
    BY <2>3, <1>TagsOfType, CatNil, SMTT(20)
  <2>8. TagsOf(q, op, ep) = Cat(TagsOf(<<m>>, op, ep), TagsOf(r, op, ep))
    BY <2>4, <2>5, Zenon
  <2>9. TagsOf(q, op, ep) = IF m.op = op /\ m.ep = ep THEN Cat(One(m.tag), TagsOf(r, op, ep))
                            ELSE TagsOf(r, op, ep)
    BY <2>6, <2>7, <2>8, ZenonT(30)
  <2> QED BY <2>1, <2>2, <2>3, <2>9, Zenon
<1>AppendShape.
      ASSUME NEW q \in Seq(Letters), NEW m \in Letters, NEW op, NEW ep
      PROVE  /\ Has(Append(q, m), op, ep) <=> Has(q, op, ep) \/ (m.op = op /\ m.ep = ep)
             /\ Silent(Append(q, m), ep) <=> Silent(q, ep) /\ m.ep # ep
             /\ LastOf(q, op, ep) /\ (Has(q, op, ep) => m.ep # ep) => LastOf(Append(q, m), op, ep)
  <2> USE <1>AppendShape
  <2> DEFINE n == Len(q)
             p == Append(q, m)
  <2>1. /\ n \in Nat /\ Len(p) = n + 1 /\ p[n + 1] = m
        /\ \A i \in 1 .. n : p[i] = q[i]
    BY SMT
  <2> HIDE DEF p, n
  <2>2. \A i \in 1 .. n + 1 : i \in 1 .. n \/ i = n + 1
    BY <2>1, SMT
  <2>3. n + 1 \in 1 .. n + 1 /\ \A i \in 1 .. n : i \in 1 .. n + 1
    BY <2>1, SMTT(20)
  <2>4. Has(p, op, ep) <=> Has(q, op, ep) \/ (m.op = op /\ m.ep = ep)
    BY <2>1, <2>2, <2>3 DEF Has, n
  <2>5. Silent(p, ep) <=> Silent(q, ep) /\ m.ep # ep
    BY <2>1, <2>2, <2>3 DEF Silent, n
  <2>6. ASSUME LastOf(q, op, ep), Has(q, op, ep) => m.ep # ep PROVE LastOf(p, op, ep)
    <3> SUFFICES ASSUME NEW i \in 1 .. n + 1, NEW j \in 1 .. n + 1, i < j, p[i].op = op, p[i].ep = ep
                 PROVE  p[j].ep # ep
      BY <2>1 DEF LastOf
    <3>1. i \in 1 .. n
      BY <2>1, SMTT(20)
    <3>2. q[i].op = op /\ q[i].ep = ep
      BY <2>1, <3>1
    <3>3. CASE j \in 1 .. n
      BY <2>1, <2>6, <3>1, <3>2, <3>3, ZenonT(30) DEF LastOf, n
    <3>4. CASE j = n + 1
      <4>1. Has(q, op, ep)
        BY <3>1, <3>2 DEF Has, n
      <4> QED BY <2>1, <2>6, <3>4, <4>1, ZenonT(30)
    <3> QED BY <2>2, <3>3, <3>4
  <2> QED BY <2>4, <2>5, <2>6 DEF p
<1>TailShape.
      ASSUME NEW q \in Seq(Letters), q # <<>>, NEW op, NEW ep
      PROVE  /\ Has(Tail(q), op, ep) => Has(q, op, ep)
             /\ Has(q, op, ep) => Has(Tail(q), op, ep) \/ (Head(q).op = op /\ Head(q).ep = ep)
             /\ Silent(q, ep) => Silent(Tail(q), ep) /\ Head(q).ep # ep
             /\ LastOf(q, op, ep) => LastOf(Tail(q), op, ep)
             /\ Head(q).op = op /\ Head(q).ep = ep => Has(q, op, ep)
             /\ LastOf(q, op, ep) /\ Head(q).op = op /\ Head(q).ep = ep => Silent(Tail(q), ep)
  <2> USE <1>TailShape
  <2> DEFINE n == Len(q)
             p == Tail(q)
  <2>1. /\ n \in Nat /\ n > 0 /\ Len(p) = n - 1 /\ Head(q) = q[1]
        /\ \A i \in 1 .. n - 1 : p[i] = q[i + 1]
    BY SMT
  <2> HIDE DEF p, n
  <2>2. 1 \in 1 .. n /\ \A i \in 1 .. n - 1 : i + 1 \in 1 .. n /\ 1 < i + 1
    BY <2>1, SMTT(20)
  <2>3. Has(p, op, ep) => Has(q, op, ep)
    BY <2>1, <2>2 DEF Has, n
  <2>4. Silent(q, ep) => Silent(p, ep) /\ Head(q).ep # ep
    BY <2>1, <2>2 DEF Silent, n
  <2>5. LastOf(q, op, ep) => LastOf(p, op, ep)
    <3> SUFFICES ASSUME LastOf(q, op, ep), NEW i \in 1 .. n - 1, NEW j \in 1 .. n - 1,
                        i < j, p[i].op = op, p[i].ep = ep
                 PROVE  p[j].ep # ep
      BY <2>1 DEF LastOf
    <3>1. i + 1 < j + 1
      BY <2>1, SMTT(20)
    <3>2. q[i + 1].op = op /\ q[i + 1].ep = ep /\ p[j] = q[j + 1]
      BY <2>1
    <3>3. i + 1 \in 1 .. Len(q) /\ j + 1 \in 1 .. Len(q)
      BY <2>2 DEF n
    <3> QED BY <3>1, <3>2, <3>3 DEF LastOf
  <2>6. Head(q).op = op /\ Head(q).ep = ep => Has(q, op, ep)
    BY <2>1, <2>2 DEF Has, n
  <2>7. LastOf(q, op, ep) /\ Head(q).op = op /\ Head(q).ep = ep => Silent(p, ep)
    <3> SUFFICES ASSUME LastOf(q, op, ep), q[1].op = op, q[1].ep = ep, NEW j \in 1 .. n - 1
                 PROVE  p[j].ep # ep
      BY <2>1 DEF Silent
    <3>1. 1 \in 1 .. Len(q) /\ j + 1 \in 1 .. Len(q) /\ 1 < j + 1 /\ p[j] = q[j + 1]
      BY <2>1, <2>2 DEF n
    <3> QED BY <3>1 DEF LastOf
  <2>8. Has(q, op, ep) => Has(p, op, ep) \/ (Head(q).op = op /\ Head(q).ep = ep)
    <3> SUFFICES ASSUME NEW i \in 1 .. n, q[i].op = op, q[i].ep = ep, i # 1 PROVE Has(p, op, ep)
      BY <2>1 DEF Has, n
    <3>1. i - 1 \in 1 .. n - 1 /\ (i - 1) + 1 = i
      BY <2>1, SMTT(20)
    <3>2. p[i - 1] = q[i]
      BY <2>1, <3>1
    <3> QED BY <2>1, <3>1, <3>2 DEF Has
  <2> QED BY <2>3, <2>4, <2>5, <2>6, <2>7, <2>8, ZenonT(30) DEF p
<1>PlacedAtFirst.
      ASSUME NEW st, NEW ep
      PROVE  Placed(<<>>, <<>>, <<>>, <<>>, st, ep)
  <2> USE <1>PlacedAtFirst
  <2>1. <<>> \in Seq(Letters) /\ <<>> \in Seq(Tags) /\ Len(<<>>) = 0
    BY SMT
  <2>2. ~Has(<<>>, "stop", ep) /\ ~Has(<<>>, "stopped", ep)
    BY <2>1, SMTT(20) DEF Has
  <2>3. LastOf(<<>>, "stop", ep) /\ LastOf(<<>>, "stopped", ep)
    BY <2>1, SMT DEF LastOf
  <2>4. Accounts(TagsOf(<<>>, "error", ep), TagsOf(<<>>, "complete", ep), <<>>,
                 TagsOf(<<>>, "map", ep), <<>>, <<>>)
    BY <1>AccountsNone, <1>TagsOfNone, ZenonT(30)
  <2> QED BY <2>1, <2>2, <2>3, <2>4, Zenon DEF Placed
\* The words moved by a step of a run complete buffers in order.
<1>TransferredPlaced.
          \A r, w :
              /\ AllPlaced
              /\ InOrder(r, buffers["tx"]) /\ InOrder(w, buffers["rx"]) /\ Transferred(r, w)
              /\ UNCHANGED <<toSIO, held, stopping>>
              => AllPlaced'
  \* Buffers that leave the front of the taken ones are completed.
  <2>AccountsMove.
        ASSUME NEW E, NEW C, NEW d \in Seq(Tags), NEW b \in Seq(Tags), NEW D, NEW R, NEW h,
               Accounts(E, C, Cat(d, b), D, R, h)
        PROVE  Accounts(E, Cat(C, d), b, D, R, h)
    <3> USE <2>AccountsMove
    <3>1. Cat(D, R) \in Seq(Tags) /\ Cat(C, d) \in Seq(Tags)
      BY CatType DEF Accounts
    <3>2. Cat(b, Cat(D, R)) \in Seq(Tags)
      BY <3>1, CatType
    <3>3. Cat(Cat(d, b), Cat(D, R)) = Cat(d, Cat(b, Cat(D, R)))
      BY <3>1, CatAssoc
    <3>4. Cat(C, Cat(d, Cat(b, Cat(D, R)))) = Cat(Cat(C, d), Cat(b, Cat(D, R)))
      BY <3>2, CatAssoc, SMT DEF Accounts
    <3>5. Only(h, Tags \ Range(E)) = Cat(Cat(C, d), Cat(b, Cat(D, R)))
      BY <3>3, <3>4, ZenonT(30) DEF Accounts
    <3> QED BY <3>1, <3>5 DEF Accounts
  <2>TagsOfCompletions.
        ASSUME NEW tags \in Seq(Tags), NEW e \in Endpoints, NEW op \in Tagged, NEW ep
        PROVE  /\ Completions(e, tags) \in Seq(Letters)
               /\ TagsOf(Completions(e, tags), op, ep)
                      = IF op = "complete" /\ ep = e THEN tags ELSE <<>>
    <3> USE <2>TagsOfCompletions
    <3> DEFINE P(x) == /\ Completions(e, x) \in Seq(Letters)
                       /\ TagsOf(Completions(e, x), op, ep)
                              = IF op = "complete" /\ ep = e THEN x ELSE <<>>
               Q == {x \in Seq(Tags) : P(x)}
    <3>1. <<>> \in Q
      <4>1. <<>> \in Seq(Tags) /\ <<>> \in Seq(Letters) /\ Completions(e, <<>>) = <<>>
        BY SMTT(20) DEF Completions
      <4> QED BY <4>1, <1>TagsOfNone, ZenonT(30)
    <3>2. ASSUME NEW x \in Seq(Tags), NEW t \in Tags, x \in Q PROVE Append(x, t) \in Q
      <4> DEFINE m == Message("complete", e, t)
                 c == Completions(e, x)
      <4>1. m \in Letters /\ m.op = "complete" /\ m.ep = e /\ m.tag = t
        BY DEF Letters, Tagged, Message
      <4>2. Completions(e, Append(x, t)) = Append(c, m)
        BY SMT DEF Completions
      <4>3. c \in Seq(Letters) /\ TagsOf(c, op, ep) = IF op = "complete" /\ ep = e THEN x ELSE <<>>
        BY <3>2
      <4>4. Append(x, t) = Cat(x, One(t)) /\ Append(x, t) \in Seq(Tags)
        BY AppendOne, SMTT(20)
      <4> HIDE DEF m, c
      <4>5. /\ Append(c, m) \in Seq(Letters)
            /\ TagsOf(Append(c, m), op, ep) = IF m.op = op /\ m.ep = ep THEN Cat(TagsOf(c, op, ep), One(m.tag))
                                              ELSE TagsOf(c, op, ep)
        BY <4>1, <4>3, <1>TagsOfAppend, SMTT(20)
      <4>6. TagsOf(Append(c, m), op, ep) = IF op = "complete" /\ ep = e THEN Append(x, t) ELSE <<>>
        BY <4>1, <4>3, <4>4, <4>5, ZenonT(30)
      <4>7. P(Append(x, t))
        BY <4>2, <4>5, <4>6, ZenonT(30)
      <4> QED BY <4>4, <4>7
    <3> HIDE DEF Q, P
    <3>3. tags \in Q
      BY <3>1, <3>2, <1>SeqInduction
    <3> QED BY <3>3 DEF Q, P
  \* The COMPLETEs of an endpoint change nothing about its STOP.
  <2>CompletionsShape.
        ASSUME NEW q \in Seq(Letters), NEW e \in Endpoints, NEW tags \in Seq(Tags), NEW ep,
               Completions(e, tags) \in Seq(Letters)
        PROVE  /\ Has(q \o Completions(e, tags), "stopped", ep) <=> Has(q, "stopped", ep)
               /\ LastOf(q, "stopped", ep) /\ (Has(q, "stopped", ep) /\ ep = e => tags = <<>>)
                      => LastOf(q \o Completions(e, tags), "stopped", ep)
    <3> USE <2>CompletionsShape
    <3>1. PICK c : c = Completions(e, tags)
      OBVIOUS
    <3>2. c \in Seq(Letters) /\ Len(c) = Len(tags) /\ \A i \in 1 .. Len(c) : c[i].op = "complete" /\ c[i].ep = e
      BY <3>1, SMTT(20) DEF Completions, Message
    <3> DEFINE n == Len(q)
               k == Len(c)
               p == q \o c
    <3>3. /\ n \in Nat /\ k \in Nat /\ Len(p) = n + k
          /\ \A i \in 1 .. n : p[i] = q[i]
          /\ \A i \in n + 1 .. n + k : p[i] = c[i - n]
      BY <3>2, SMTT(20)
    <3> HIDE DEF p, n, k
    <3>4. \A i \in 1 .. n + k : i \in 1 .. n \/ (i \in n + 1 .. n + k /\ i - n \in 1 .. k)
      BY <3>3, SMT
    <3>5. \A i \in 1 .. n + k : i \in 1 .. n \/ (p[i].op = "complete" /\ p[i].ep = e)
      BY <3>2, <3>3, <3>4, ZenonT(30) DEF k
    <3>6. \A i \in 1 .. n : i \in 1 .. n + k
      BY <3>3, SMT
    <3>7. Has(p, "stopped", ep) <=> Has(q, "stopped", ep)
      BY <3>3, <3>5, <3>6, ZenonT(30) DEF Has, n
    <3>8. ASSUME LastOf(q, "stopped", ep), Has(q, "stopped", ep) /\ ep = e => tags = <<>>
          PROVE  LastOf(p, "stopped", ep)
      <4> SUFFICES ASSUME NEW i \in 1 .. n + k, NEW j \in 1 .. n + k, i < j,
                          p[i].op = "stopped", p[i].ep = ep
                   PROVE  p[j].ep # ep
        BY <3>3 DEF LastOf
      <4>1. i \in 1 .. n
        BY <3>5
      <4>2. q[i].op = "stopped" /\ q[i].ep = ep
        BY <3>3, <4>1
      <4>3. CASE j \in 1 .. n
        BY <3>3, <3>8, <4>1, <4>2, <4>3, ZenonT(30) DEF LastOf, n
      <4>4. CASE j \notin 1 .. n
        <5>1. p[j].ep = e /\ k # 0
          BY <3>3, <3>5, <4>4, SMTT(20)
        <5>2. Has(q, "stopped", ep)
          BY <4>1, <4>2 DEF Has, n
        <5>3. tags # <<>>
          BY <3>2, <5>1 DEF k
        <5> QED BY <3>8, <5>1, <5>2, <5>3, ZenonT(30)
      <4> QED BY <4>3, <4>4
    <3> QED BY <3>1, <3>7, <3>8 DEF p
  \* COMPLETEs of another endpoint.
  <2>PlacedCompletionsOther.
        ASSUME NEW ap, NEW B, NEW sio, NEW h, NEW st, NEW ep, Placed(ap, B, sio, h, st, ep),
               NEW e \in Endpoints, e # ep, NEW d \in Seq(Tags)
        PROVE  Placed(ap \o Completions(e, d), B, sio, h, st, ep)
    <3> USE <2>PlacedCompletionsOther
    <3>1. ap \in Seq(Letters)
      BY DEF Placed
    <3>2. PICK c : c = Completions(e, d)
      OBVIOUS
    <3>3. c \in Seq(Letters) /\ TagsOf(c, "error", ep) = <<>> /\ TagsOf(c, "complete", ep) = <<>>
      BY <3>2, <2>TagsOfCompletions, SMT DEF Tagged
    <3>4. PICK p : p = ap \o c
      BY ZenonT(30)
    <3>5. p \in Seq(Letters)
      BY <3>1, <3>3, <3>4, SMTT(20)
    <3>6. /\ TagsOf(p, "error", ep) = Cat(TagsOf(ap, "error", ep), TagsOf(c, "error", ep))
          /\ TagsOf(p, "complete", ep) = Cat(TagsOf(ap, "complete", ep), TagsOf(c, "complete", ep))
      BY <3>1, <3>3, <3>4, <1>TagsOfCats, SMTT(20)
    <3>7. TagsOf(ap, "error", ep) \in Seq(Tags) /\ TagsOf(ap, "complete", ep) \in Seq(Tags)
      BY <3>1, <1>TagsOfType DEF Tagged
    <3>8. /\ TagsOf(p, "error", ep) = TagsOf(ap, "error", ep)
          /\ TagsOf(p, "complete", ep) = TagsOf(ap, "complete", ep)
      BY <3>3, <3>6, <3>7, CatNil, ZenonT(30)
    <3>9. /\ Has(p, "stopped", ep) <=> Has(ap, "stopped", ep)
          /\ LastOf(ap, "stopped", ep) => LastOf(p, "stopped", ep)
      BY <3>1, <3>2, <3>3, <3>4, <2>CompletionsShape
    <3>10. Placed(p, B, sio, h, st, ep)
      BY <3>5, <3>8, <3>9, ZenonT(30) DEF Placed
    <3> QED BY <3>2, <3>4, <3>10
  \* COMPLETEs of the first buffers of the endpoint.
  <2>PlacedCompletions.
        ASSUME NEW ap, NEW B, NEW sio, NEW h, NEW st, NEW ep \in Endpoints,
               Placed(ap, B, sio, h, st, ep),
               NEW d \in Seq(Tags), NEW b \in Seq(Tags), B = Cat(d, b)
        PROVE  Placed(ap \o Completions(ep, d), b, sio, h, st, ep)
    <3> USE <2>PlacedCompletions
    <3>1. ap \in Seq(Letters)
      BY DEF Placed
    <3>2. PICK c : c = Completions(ep, d)
      OBVIOUS
    <3>3. c \in Seq(Letters) /\ TagsOf(c, "error", ep) = <<>> /\ TagsOf(c, "complete", ep) = d
      BY <3>2, <2>TagsOfCompletions, SMTT(20) DEF Tagged
    <3>4. PICK p : p = ap \o c
      BY ZenonT(30)
    <3>5. p \in Seq(Letters)
      BY <3>1, <3>3, <3>4, SMTT(20)
    <3>6. /\ TagsOf(p, "error", ep) = Cat(TagsOf(ap, "error", ep), TagsOf(c, "error", ep))
          /\ TagsOf(p, "complete", ep) = Cat(TagsOf(ap, "complete", ep), TagsOf(c, "complete", ep))
      BY <3>1, <3>3, <3>4, <1>TagsOfCats, SMTT(20)
    <3>7. TagsOf(ap, "error", ep) \in Seq(Tags)
      BY <3>1, <1>TagsOfType DEF Tagged
    <3>8. /\ TagsOf(p, "error", ep) = TagsOf(ap, "error", ep)
          /\ TagsOf(p, "complete", ep) = Cat(TagsOf(ap, "complete", ep), d)
      BY <3>3, <3>6, <3>7, CatNil
    <3>9. Has(ap, "stopped", ep) => d = <<>> /\ b = <<>>
      BY <1>CatEmptyBoth DEF Placed
    <3>10. /\ Has(p, "stopped", ep) <=> Has(ap, "stopped", ep)
           /\ LastOf(ap, "stopped", ep) => LastOf(p, "stopped", ep)
      BY <3>1, <3>2, <3>3, <3>4, <3>9, <2>CompletionsShape
    <3>11. PICK R \in Seq(Tags) :
              /\ Accounts(TagsOf(ap, "error", ep), TagsOf(ap, "complete", ep), B,
                          TagsOf(sio, "map", ep), R, h)
              /\ R # <<>> => Has(ap, "stopped", ep)
      BY DEF Placed
    <3>12. Accounts(TagsOf(ap, "error", ep), Cat(TagsOf(ap, "complete", ep), d), b,
                    TagsOf(sio, "map", ep), R, h)
      BY <3>11, <2>AccountsMove
    <3>13. Accounts(TagsOf(p, "error", ep), TagsOf(p, "complete", ep), b,
                    TagsOf(sio, "map", ep), R, h)
      BY <3>8, <3>12, ZenonT(30)
    <3>14. Placed(p, b, sio, h, st, ep)
      BY <3>5, <3>9, <3>10, <3>11, <3>13, ZenonT(30) DEF Placed
    <3> QED BY <3>2, <3>4, <3>14
  <2>TransferredPlaced.
        ASSUME AllPlaced, NEW r, NEW w,
               InOrder(r, buffers["tx"]), InOrder(w, buffers["rx"]), Transferred(r, w),
               UNCHANGED <<toSIO, held, stopping>>
        PROVE  AllPlaced'
    <3> USE <2>TransferredPlaced
    <3>1. PICK p : p = toAP \o Completions("tx", r.done)
      BY Zenon
    <3>2. PICK s : s = p \o Completions("rx", w.done)
      BY ZenonT(30)
    <3>3. /\ toAP' = s /\ buffers' = [tx |-> r.rest, rx |-> w.rest]
          /\ toSIO' = toSIO /\ held' = held /\ stopping' = stopping
      BY <3>1, <3>2, Zenon DEF Transferred
    <3>4. /\ r.done \in Seq(Tags) /\ TagList(buffers["tx"]) = Cat(r.done, TagList(r.rest))
          /\ w.done \in Seq(Tags) /\ TagList(buffers["rx"]) = Cat(w.done, TagList(w.rest))
      BY ZenonT(30) DEF InOrder
    <3>5. TagList(r.rest) \in Seq(Tags) /\ TagList(w.rest) \in Seq(Tags)
      BY BufferTagList, ZenonT(30) DEF InOrder
    <3>6. "tx" \in Endpoints /\ "rx" \in Endpoints /\ "tx" # "rx"
      BY DEF Endpoints
    <3>7. Placed(s, TagList(r.rest), toSIO, held["tx"], stopping, "tx")
      <4>1. Placed(toAP, TagList(buffers["tx"]), toSIO, held["tx"], stopping, "tx")
        BY <3>6 DEF AllPlaced
      <4>2. Placed(p, TagList(r.rest), toSIO, held["tx"], stopping, "tx")
        BY <3>1, <3>4, <3>5, <3>6, <4>1, <2>PlacedCompletions, ZenonT(30)
      <4> QED BY <3>2, <3>4, <3>6, <4>2, <2>PlacedCompletionsOther, ZenonT(30)
    <3>8. Placed(s, TagList(w.rest), toSIO, held["rx"], stopping, "rx")
      <4>1. Placed(toAP, TagList(buffers["rx"]), toSIO, held["rx"], stopping, "rx")
        BY <3>6 DEF AllPlaced
      <4>2. Placed(p, TagList(buffers["rx"]), toSIO, held["rx"], stopping, "rx")
        BY <3>1, <3>4, <3>6, <4>1, <2>PlacedCompletionsOther, ZenonT(30)
      <4> QED BY <3>2, <3>4, <3>5, <3>6, <4>2, <2>PlacedCompletions, ZenonT(30)
    <3>9. buffers'["tx"] = r.rest /\ buffers'["rx"] = w.rest
      BY <3>3, Zenon
    <3>10. /\ Placed(toAP', TagList(buffers'["tx"]), toSIO', held'["tx"], stopping', "tx")
           /\ Placed(toAP', TagList(buffers'["rx"]), toSIO', held'["rx"], stopping', "rx")
      BY <3>3, <3>7, <3>8, <3>9, ZenonT(30)
    <3>11. \A ep \in Endpoints :
               Placed(toAP', TagList(buffers'[ep]), toSIO', held'[ep], stopping', ep)
      BY <3>10, Zenon DEF Endpoints
    <3>12. held' \in [Endpoints -> Seq(Tags)]
      BY <3>3, ZenonT(30) DEF AllPlaced
    <3> QED BY <3>11, <3>12, ZenonT(30) DEF AllPlaced
  <2> QED BY <2>TransferredPlaced
\* The driver hands out a buffer, or asks for a STOP.
<1>DriverSendPlaced.
          \A e \in Endpoints :
              AllPlaced /\ ((\E tag \in Tags : DriverMap(e, tag)) \/ DriverStop(e)) => AllPlaced'
  \* A new buffer is listed and sent.
  <2>AccountsMap.
        ASSUME NEW E, NEW C, NEW B, NEW D, NEW R, NEW h, NEW t \in Tags,
               Accounts(E, C, B, D, R, h), R = <<>>, t \notin Range(h)
        PROVE  Accounts(E, C, B, Cat(D, One(t)), R, Cat(h, One(t)))
    <3> USE <2>AccountsMap
    <3>1. One(t) \in Seq(Tags) /\ Range(One(t)) = {t}
      BY OneType, <1>RangeOne
    <3>2. Cat(D, One(t)) \in Seq(Tags) /\ Cat(h, One(t)) \in Seq(Tags) /\ Cat(B, D) \in Seq(Tags)
      BY <3>1, CatType DEF Accounts
    <3>3. Unique(Cat(h, One(t)))
      BY <1>UniqueMore DEF Accounts
    <3>4. Range(Cat(h, One(t))) = Range(h) \cup {t}
      BY <3>1, <1>RangeCat, SMTT(20) DEF Accounts
    <3>5. Only(Cat(h, One(t)), Tags \ Range(E)) = Cat(Only(h, Tags \ Range(E)), One(t))
      <4>1. Only(One(t), Tags \ Range(E)) = One(t)
        <5>1. t \in Tags \ Range(E)
          BY DEF Accounts
        <5> QED BY <5>1, <1>TagsOne
      <4> QED BY <3>1, <4>1, <1>TagsCat, SMTT(20) DEF Accounts
    <3>6. Cat(Cat(C, Cat(B, D)), One(t)) = Cat(C, Cat(B, Cat(D, One(t))))
      <4>1. Cat(Cat(C, Cat(B, D)), One(t)) = Cat(C, Cat(Cat(B, D), One(t)))
        BY <3>1, <3>2, CatAssoc, SMTT(20) DEF Accounts
      <4>2. Cat(Cat(B, D), One(t)) = Cat(B, Cat(D, One(t)))
        BY <3>1, CatAssoc, SMTT(20) DEF Accounts
      <4> QED BY <4>1, <4>2, ZenonT(30)
    <3>7. Cat(D, R) = D /\ Cat(Cat(D, One(t)), R) = Cat(D, One(t))
      BY <3>2, CatNil DEF Accounts
    <3>8. Only(Cat(h, One(t)), Tags \ Range(E)) = Cat(C, Cat(B, Cat(Cat(D, One(t)), R)))
      <4>1. Only(h, Tags \ Range(E)) = Cat(C, Cat(B, D))
        BY <3>7, ZenonT(30) DEF Accounts
      <4> QED BY <3>5, <3>6, <3>7, <4>1, Zenon
    <3> QED BY <3>2, <3>3, <3>4, <3>8 DEF Accounts
  \* The driver sends something about another endpoint.
  <2>PlacedSendOther.
        ASSUME NEW ap, NEW B, NEW sio, NEW h, NEW st, NEW ep, Placed(ap, B, sio, h, st, ep),
               NEW m \in Letters, m.ep # ep, NEW su, ep \in st <=> ep \in su
        PROVE  Placed(ap, B, Append(sio, m), h, su, ep)
    <3> USE <2>PlacedSendOther
    <3>1. sio \in Seq(Letters)
      BY DEF Placed
    <3>2. /\ Append(sio, m) \in Seq(Letters)
          /\ TagsOf(Append(sio, m), "map", ep) = TagsOf(sio, "map", ep)
      BY <3>1, <1>TagsOfAppend, SMTT(20) DEF Tagged
    <3>3. /\ Has(Append(sio, m), "stop", ep) <=> Has(sio, "stop", ep)
          /\ Silent(Append(sio, m), ep) <=> Silent(sio, ep)
          /\ LastOf(sio, "stop", ep) => LastOf(Append(sio, m), "stop", ep)
      BY <3>1, <1>AppendShape
    <3> QED BY <3>2, <3>3, ZenonT(30) DEF Placed
  \* The driver sends a MAP.
  <2>PlacedSendMap.
        ASSUME NEW ap, NEW B, NEW sio, NEW h, NEW st, NEW ep, Placed(ap, B, sio, h, st, ep),
               NEW m \in Letters, m.op = "map", m.ep = ep, ep \notin st, m.tag \notin Range(h)
        PROVE  Placed(ap, B, Append(sio, m), Append(h, m.tag), st, ep)
    <3> USE <2>PlacedSendMap
    <3>1. sio \in Seq(Letters) /\ m.tag \in Tags
      BY DEF Placed, Letters, Tagged
    <3>2. /\ Append(sio, m) \in Seq(Letters)
          /\ TagsOf(Append(sio, m), "map", ep) = Cat(TagsOf(sio, "map", ep), One(m.tag))
      BY <3>1, <1>TagsOfAppend DEF Tagged
    <3>3. ~Has(sio, "stop", ep) /\ ~Has(ap, "stopped", ep)
      BY DEF Placed
    <3>4. ~Has(Append(sio, m), "stop", ep) /\ LastOf(Append(sio, m), "stop", ep)
      <4>1. m.op # "stop"
        OBVIOUS
      <4>2. LastOf(sio, "stop", ep)
        BY DEF Placed
      <4> QED BY <3>1, <3>3, <4>1, <4>2, <1>AppendShape
    <3>5. PICK R \in Seq(Tags) :
              /\ Accounts(TagsOf(ap, "error", ep), TagsOf(ap, "complete", ep), B,
                          TagsOf(sio, "map", ep), R, h)
              /\ R = <<>>
      BY <3>3 DEF Placed
    <3>6. Accounts(TagsOf(ap, "error", ep), TagsOf(ap, "complete", ep), B,
                   Cat(TagsOf(sio, "map", ep), One(m.tag)), R, Cat(h, One(m.tag)))
      BY <3>1, <3>5, <2>AccountsMap
    <3>7. Append(h, m.tag) = Cat(h, One(m.tag))
      BY <3>1, <3>5, AppendOne, Zenon DEF Accounts
    <3>8. Accounts(TagsOf(ap, "error", ep), TagsOf(ap, "complete", ep), B,
                   TagsOf(Append(sio, m), "map", ep), R, Append(h, m.tag))
      BY <3>2, <3>6, <3>7, ZenonT(30)
    <3> QED BY <3>2, <3>3, <3>4, <3>5, <3>8, ZenonT(30) DEF Placed
  \* The driver sends a STOP.
  <2>PlacedSendStop.
        ASSUME NEW ap, NEW B, NEW sio, NEW h, NEW st, NEW ep, Placed(ap, B, sio, h, st, ep),
               NEW m \in Letters, m.op = "stop", m.ep = ep, ep \notin st, NEW su, ep \in su
        PROVE  Placed(ap, B, Append(sio, m), h, su, ep)
    <3> USE <2>PlacedSendStop
    <3>1. sio \in Seq(Letters)
      BY DEF Placed
    <3>2. /\ Append(sio, m) \in Seq(Letters)
          /\ TagsOf(Append(sio, m), "map", ep) = TagsOf(sio, "map", ep)
      BY <3>1, <1>TagsOfAppend, SMTT(20) DEF Tagged
    <3>3. ~Has(sio, "stop", ep) /\ ~Has(ap, "stopped", ep)
      BY DEF Placed
    <3>4. LastOf(Append(sio, m), "stop", ep)
      <4>1. LastOf(sio, "stop", ep)
        BY DEF Placed
      <4> QED BY <3>1, <3>3, <4>1, <1>AppendShape
    <3> QED BY <3>2, <3>3, <3>4, ZenonT(30) DEF Placed
  <2>DriverSendPlaced.
        ASSUME AllPlaced, NEW e \in Endpoints,
               \/ \E tag \in Tags : DriverMap(e, tag)
               \/ DriverStop(e)
        PROVE  AllPlaced'
    <3> USE <2>DriverSendPlaced
    <3>1. ASSUME NEW tag \in Tags, DriverMap(e, tag) PROVE AllPlaced'
      <4>1. PICK m : m = Message("map", e, tag)
        OBVIOUS
      <4>2. m \in Letters /\ m.op = "map" /\ m.ep = e /\ m.tag = tag
        BY <4>1 DEF Message, Letters, Tagged
      <4>3. /\ toSIO' = Append(toSIO, m) /\ toAP' = toAP /\ buffers' = buffers
            /\ stopping' = stopping /\ e \notin stopping /\ tag \notin Range(held[e])
            /\ held' = [held EXCEPT ![e] = Append(held[e], tag)]
        BY <3>1, <4>1, ZenonT(30) DEF DriverMap, Send
      <4>4. held \in [Endpoints -> Seq(Tags)]
        BY DEF AllPlaced
      <4>5. Append(held[e], tag) \in Seq(Tags)
        BY <4>4, SMTT(20)
      <4>6. held' \in [Endpoints -> Seq(Tags)] /\ held'[e] = Append(held[e], tag)
        BY <4>3, <4>4, <4>5
      <4>7. ASSUME NEW ep \in Endpoints
            PROVE  Placed(toAP', TagList(buffers'[ep]), toSIO', held'[ep], stopping', ep)
        <5>1. Placed(toAP, TagList(buffers[ep]), toSIO, held[ep], stopping, ep)
          BY DEF AllPlaced
        <5>2. CASE ep = e
          <6>1. Placed(toAP, TagList(buffers[ep]), Append(toSIO, m), Append(held[ep], m.tag),
                       stopping, ep)
            BY <4>2, <4>3, <5>1, <5>2, <2>PlacedSendMap, ZenonT(30)
          <6> QED BY <4>2, <4>3, <4>6, <5>2, <6>1, ZenonT(30)
        <5>3. CASE ep # e
          <6>1. Placed(toAP, TagList(buffers[ep]), Append(toSIO, m), held[ep], stopping, ep)
            BY <4>2, <5>1, <5>3, <2>PlacedSendOther, ZenonT(30)
          <6>2. held'[ep] = held[ep]
            BY <4>3, <4>4, <5>3
          <6> QED BY <4>3, <6>1, <6>2, ZenonT(30)
        <5> QED BY <5>2, <5>3, ZenonT(30)
      <4> QED BY <4>6, <4>7, ZenonT(30) DEF AllPlaced
    <3>2. ASSUME DriverStop(e) PROVE AllPlaced'
      <4>1. PICK m : m = Message("stop", e, NoTag)
        OBVIOUS
      <4>2. m \in Letters /\ m.op = "stop" /\ m.ep = e
        BY <4>1 DEF Message, Letters, Tagged
      <4>3. /\ toSIO' = Append(toSIO, m) /\ toAP' = toAP /\ buffers' = buffers
            /\ e \notin stopping /\ held' = held /\ stopping' = stopping \cup {e}
        BY <3>2, <4>1 DEF DriverStop, Send
      <4>4. PICK su : su = stopping'
        OBVIOUS
      <4>5. e \in su /\ \A ep : ep # e => (ep \in stopping <=> ep \in su)
        BY <4>3, <4>4
      <4>6. ASSUME NEW ep \in Endpoints
            PROVE  Placed(toAP', TagList(buffers'[ep]), toSIO', held'[ep], stopping', ep)
        <5>1. Placed(toAP, TagList(buffers[ep]), toSIO, held[ep], stopping, ep)
          BY DEF AllPlaced
        <5>2. Placed(toAP, TagList(buffers[ep]), Append(toSIO, m), held[ep], su, ep)
          <6>1. CASE ep = e
            BY <4>2, <4>3, <4>5, <5>1, <6>1, <2>PlacedSendStop, ZenonT(30)
          <6>2. CASE ep # e
            BY <4>2, <4>5, <5>1, <6>2, <2>PlacedSendOther, ZenonT(30)
          <6> QED BY <6>1, <6>2, ZenonT(30)
        <5> QED BY <4>3, <4>4, <5>2, ZenonT(30)
      <4>7. held' \in [Endpoints -> Seq(Tags)]
        BY <4>3, ZenonT(30) DEF AllPlaced
      <4> QED BY <4>6, <4>7, ZenonT(30) DEF AllPlaced
    <3> QED BY <3>1, <3>2
  <2> QED BY <2>DriverSendPlaced
\* The driver reads a message.
<1>DriverReceivePlaced.
      AllPlaced /\ DriverReceive => AllPlaced'
  <2>UniqueRest.
        ASSUME NEW t \in Tags, NEW b \in Seq(Tags), Unique(Cat(One(t), b))
        PROVE  Unique(b) /\ t \notin Range(b)
    <3> USE <2>UniqueRest
    <3>0. PICK a : a = <<>>
      OBVIOUS
    <3>1. a \in Seq(Tags) /\ Cat(One(t), b) \in Seq(Tags)
      BY <3>0, OneType, CatType, SMTT(20)
    <3>2. Cat(a, Cat(One(t), b)) = Cat(One(t), b) /\ Cat(a, b) = b
      BY <3>0, <3>1, CatNil
    <3>3. Only(Cat(One(t), b), Tags \ {t}) = b /\ t \notin Range(b)
      <4>1. Unique(Cat(a, Cat(One(t), b)))
        BY <3>2
      <4> QED BY <3>1, <3>2, <4>1, <1>TakeOut, SMTT(20)
    <3>4. Unique(Only(Cat(One(t), b), Tags \ {t}))
      BY <3>1, <1>TagsUnique
    <3> QED BY <3>3, <3>4
  \* The driver takes a refused buffer off its list.
  <2>AccountsError.
        ASSUME NEW E \in Seq(Tags), NEW C, NEW B, NEW D, NEW R, NEW h, NEW t \in Tags,
               Accounts(Cat(One(t), E), C, B, D, R, h)
        PROVE  Accounts(E, C, B, D, R, Only(h, Tags \ {t}))
    <3> USE <2>AccountsError
    <3> DEFINE g == Only(h, Tags \ {t})
    <3>0. h \in Seq(Tags)
      BY DEF Accounts
    <3>1. One(t) \in Seq(Tags) /\ Range(One(t)) = {t}
      BY OneType, <1>RangeOne
    <3>2. Unique(E) /\ t \notin Range(E)
      BY <2>UniqueRest DEF Accounts
    <3>3. Range(Cat(One(t), E)) = {t} \cup Range(E)
      BY <3>1, <1>RangeCat
    <3>4. g \in Seq(Tags) /\ Unique(g)
      BY <1>TagsType, <1>TagsUnique DEF Accounts
    <3>5. Range(g) = Range(h) \cap (Tags \ {t})
      BY <1>TagsRangeOnly DEF Accounts
    <3>6. Range(E) \subseteq Range(g)
      <4>1. Range(E) \subseteq Tags
        BY <1>TagsInRange
      <4>2. Range(E) \subseteq Range(h)
        BY <3>3 DEF Accounts
      <4> QED BY <3>2, <3>5, <4>1, <4>2, Zenon
    <3>7. Only(g, Tags \ Range(E)) = Only(h, Tags \ Range(Cat(One(t), E)))
      <4>1. Tags \ Range(Cat(One(t), E)) = (Tags \ {t}) \cap (Tags \ Range(E))
        BY <3>3
      <4>2. Only(g, Tags \ Range(E)) = Only(h, (Tags \ {t}) \cap (Tags \ Range(E)))
        BY <3>0, <1>TagsTwice, SMT
      <4> QED BY <4>1, <4>2, ZenonT(30)
    <3>8. Only(g, Tags \ Range(E)) = Cat(C, Cat(B, Cat(D, R)))
      BY <3>7, ZenonT(30) DEF Accounts
    <3> QED BY <3>2, <3>4, <3>6, <3>8, ZenonT(30) DEF Accounts
  \* The driver takes a completed buffer off its list.
  <2>AccountsComplete.
        ASSUME NEW E, NEW C \in Seq(Tags), NEW B, NEW D, NEW R, NEW h, NEW t \in Tags,
               Accounts(E, Cat(One(t), C), B, D, R, h)
        PROVE  Accounts(E, C, B, D, R, Only(h, Tags \ {t}))
    <3> USE <2>AccountsComplete
    <3> DEFINE g == Only(h, Tags \ {t})
               X == Range(E)
               K == Only(h, Tags \ X)
               L == Cat(C, Cat(B, Cat(D, R)))
    <3>0. h \in Seq(Tags)
      BY DEF Accounts
    <3>1. One(t) \in Seq(Tags) /\ Range(One(t)) = {t}
      BY OneType, <1>RangeOne
    <3>2. Cat(B, Cat(D, R)) \in Seq(Tags) /\ L \in Seq(Tags)
      <4>1. Cat(D, R) \in Seq(Tags)
        BY CatType DEF Accounts
      <4>2. Cat(B, Cat(D, R)) \in Seq(Tags)
        BY <4>1, CatType DEF Accounts
      <4> QED BY <4>2, CatType
    <3>3. K = Cat(One(t), L)
      <4>1. Cat(Cat(One(t), C), Cat(B, Cat(D, R))) = Cat(One(t), L)
        BY <3>1, <3>2, CatAssoc
      <4> QED BY <4>1, ZenonT(30) DEF Accounts
    <3>4. K \in Seq(Tags) /\ Unique(K)
      BY <1>TagsType, <1>TagsUnique DEF Accounts
    <3>5. g \in Seq(Tags) /\ Unique(g)
      BY <1>TagsType, <1>TagsUnique DEF Accounts
    <3>6. Range(g) = Range(h) \cap (Tags \ {t}) /\ Range(K) = Range(h) \cap (Tags \ X)
      BY <1>TagsRangeOnly DEF Accounts
    <3>7. Range(K) = {t} \cup Range(L)
      <4> HIDE DEF K, L
      <4> QED BY <3>1, <3>2, <3>3, <1>RangeCat
    <3>8. X \subseteq Range(g)
      <4>1. X \subseteq Tags
        BY <1>TagsInRange DEF Accounts
      <4> QED BY <3>6, <3>7, <4>1, ZenonT(30) DEF Accounts
    <3>9. Only(g, Tags \ X) = Only(K, Tags \ {t})
      <4>1. (Tags \ {t}) \cap (Tags \ X) = (Tags \ X) \cap (Tags \ {t})
        OBVIOUS
      <4>2. Only(g, Tags \ X) = Only(h, (Tags \ {t}) \cap (Tags \ X))
        BY <3>0, <1>TagsTwice, SMTT(20)
      <4>3. Only(K, Tags \ {t}) = Only(h, (Tags \ X) \cap (Tags \ {t}))
        BY <3>0, <1>TagsTwice, SMTT(20)
      <4> QED BY <4>1, <4>2, <4>3, ZenonT(30)
    <3>10. Only(K, Tags \ {t}) = L
      <4> HIDE DEF K, L
      <4>1. PICK a : a = <<>>
        OBVIOUS
      <4>2. a \in Seq(Tags)
        BY <4>1, SMTT(20)
      <4>3. Cat(a, Cat(One(t), L)) = K /\ Cat(a, L) = L
        BY <3>2, <3>3, <3>4, <4>1, CatNil
      <4>4. Unique(Cat(a, Cat(One(t), L)))
        BY <3>4, <4>3
      <4>5. Only(Cat(a, Cat(One(t), L)), Tags \ {t}) = Cat(a, L)
        BY <3>2, <4>2, <4>4, <1>TakeOut
      <4> QED BY <4>3, <4>5
    <3>11. Only(g, Tags \ X) = L
      BY <3>9, <3>10, ZenonT(30)
    <3> QED BY <3>5, <3>8, <3>11, ZenonT(30) DEF Accounts
  \* The driver reads a message of another endpoint.
  <2>PlacedReadOther.
        ASSUME NEW ap, NEW B, NEW sio, NEW h, NEW st, NEW ep, Placed(ap, B, sio, h, st, ep),
               ap # <<>>, \/ Head(ap).ep # ep
                          \/ Head(ap).op \notin {"error", "complete", "stopped"},
               NEW su, ep \in st <=> ep \in su
        PROVE  Placed(Tail(ap), B, sio, h, su, ep)
    <3> USE <2>PlacedReadOther
    <3>1. ap \in Seq(Letters)
      BY DEF Placed
    <3>2. /\ Tail(ap) \in Seq(Letters)
          /\ TagsOf(ap, "error", ep) = TagsOf(Tail(ap), "error", ep)
          /\ TagsOf(ap, "complete", ep) = TagsOf(Tail(ap), "complete", ep)
      BY <3>1, <1>TagsOfTail, ZenonT(30) DEF Tagged
    <3>3. /\ Has(Tail(ap), "stopped", ep) => Has(ap, "stopped", ep)
          /\ LastOf(ap, "stopped", ep) => LastOf(Tail(ap), "stopped", ep)
      BY <3>1, <1>TailShape, ZenonT(30)
    <3>4. Has(ap, "stopped", ep) => Has(Tail(ap), "stopped", ep)
      BY <3>1, <1>TailShape, ZenonT(30)
    <3> QED BY <3>2, <3>3, <3>4, ZenonT(30) DEF Placed
  \* The driver reads that a buffer of the endpoint was refused or is completed.
  <2>PlacedRead.
        ASSUME NEW ap, NEW B, NEW sio, NEW h, NEW st, NEW ep, Placed(ap, B, sio, h, st, ep),
               ap # <<>>, Head(ap).ep = ep, Head(ap).op \in {"error", "complete"}
        PROVE  Placed(Tail(ap), B, sio, Only(h, Tags \ {Head(ap).tag}), st, ep)
    <3> USE <2>PlacedRead
    <3>1. ap \in Seq(Letters)
      BY DEF Placed
    <3>2. PICK m : m = Head(ap)
      OBVIOUS
    <3>3. m \in Letters /\ m.tag \in Tags
      <4>1. m \in Letters
        BY <3>1, <3>2, SMT
      <4> QED BY <3>2, <4>1 DEF Letters, Tagged
    <3>4. PICK r : r = Tail(ap)
      BY Zenon
    <3>5. r \in Seq(Letters)
      BY <3>1, <3>4, SMT
    <3>6. /\ Has(r, "stopped", ep) <=> Has(ap, "stopped", ep)
          /\ LastOf(ap, "stopped", ep) => LastOf(r, "stopped", ep)
      BY <3>1, <3>4, <1>TailShape, ZenonT(30)
    <3>7. PICK R \in Seq(Tags) :
              /\ Accounts(TagsOf(ap, "error", ep), TagsOf(ap, "complete", ep), B,
                          TagsOf(sio, "map", ep), R, h)
              /\ R # <<>> => Has(ap, "stopped", ep)
      BY DEF Placed
    <3>8. Accounts(TagsOf(r, "error", ep), TagsOf(r, "complete", ep), B,
                   TagsOf(sio, "map", ep), R, Only(h, Tags \ {m.tag}))
      <4>1. CASE m.op = "error"
        <5>1. /\ TagsOf(ap, "error", ep) = Cat(One(m.tag), TagsOf(r, "error", ep))
              /\ TagsOf(ap, "complete", ep) = TagsOf(r, "complete", ep)
          BY <3>1, <3>2, <3>4, <4>1, <1>TagsOfTail, ZenonT(30) DEF Tagged
        <5>2. TagsOf(r, "error", ep) \in Seq(Tags)
          BY <3>5, <1>TagsOfType DEF Tagged
        <5> QED BY <3>3, <3>7, <5>1, <5>2, <2>AccountsError, SMTT(20)
      <4>2. CASE m.op = "complete"
        <5>1. /\ TagsOf(ap, "complete", ep) = Cat(One(m.tag), TagsOf(r, "complete", ep))
              /\ TagsOf(ap, "error", ep) = TagsOf(r, "error", ep)
          BY <3>1, <3>2, <3>4, <4>2, <1>TagsOfTail, ZenonT(30) DEF Tagged
        <5>2. TagsOf(r, "complete", ep) \in Seq(Tags)
          BY <3>5, <1>TagsOfType DEF Tagged
        <5> QED BY <3>3, <3>7, <5>1, <5>2, <2>AccountsComplete, SMTT(20)
      <4> QED BY <3>2, <4>1, <4>2, ZenonT(30)
    <3>9. Placed(r, B, sio, Only(h, Tags \ {m.tag}), st, ep)
      BY <3>5, <3>6, <3>7, <3>8, ZenonT(30) DEF Placed
    <3> QED BY <3>2, <3>4, <3>9, ZenonT(30)
  \* The driver reads the end of a STOP.
  <2>PlacedReadStopped.
        ASSUME NEW ap, NEW B, NEW sio, NEW h, NEW st, NEW ep, Placed(ap, B, sio, h, st, ep),
               ap # <<>>, Head(ap).ep = ep, Head(ap).op = "stopped", NEW su
        PROVE  Placed(Tail(ap), B, sio, <<>>, su, ep)
    <3> USE <2>PlacedReadStopped
    <3>1. ap \in Seq(Letters) /\ sio \in Seq(Letters)
      BY DEF Placed
    <3>2. PICK r : r = Tail(ap)
      BY ZenonT(30)
    <3>3. r \in Seq(Letters)
      BY <3>1, <3>2, SMT
    <3>4. Has(ap, "stopped", ep) /\ Silent(r, ep)
      <4>1. LastOf(ap, "stopped", ep)
        BY DEF Placed
      <4> QED BY <3>1, <3>2, <4>1, <1>TailShape, Zenon
    <3>5. Silent(sio, ep) /\ B = <<>>
      BY <3>4 DEF Placed
    <3>6. ASSUME NEW q \in Seq(Letters), NEW op, Silent(q, ep)
          PROVE  TagsOf(q, op, ep) = <<>> /\ ~Has(q, op, ep) /\ LastOf(q, op, ep)
      <4>1. TagsOf(q, op, ep) # <<>> <=> \E i \in 1 .. Len(q) : q[i].op = op /\ q[i].ep = ep
        BY <1>TagsOfSome, SMT
      <4> QED BY <3>6, <4>1, ZenonT(30) DEF Silent, Has, LastOf
    <3>7. /\ TagsOf(r, "error", ep) = <<>> /\ TagsOf(r, "complete", ep) = <<>>
          /\ TagsOf(sio, "map", ep) = <<>>
          /\ ~Has(r, "stopped", ep) /\ LastOf(r, "stopped", ep)
          /\ ~Has(sio, "stop", ep) /\ LastOf(sio, "stop", ep)
      BY <3>1, <3>3, <3>4, <3>5, <3>6, Zenon
    <3>8. Accounts(TagsOf(r, "error", ep), TagsOf(r, "complete", ep), B,
                   TagsOf(sio, "map", ep), <<>>, <<>>)
      BY <3>5, <3>7, <1>AccountsNone, ZenonT(30)
    <3>9. <<>> \in Seq(Tags)
      BY SMT
    <3>10. Placed(r, B, sio, <<>>, su, ep)
      BY <3>1, <3>3, <3>7, <3>8, <3>9, ZenonT(30) DEF Placed
    <3> QED BY <3>2, <3>10
  <2>PlacedList.
        ASSUME NEW ap, NEW B, NEW sio, NEW h, NEW st, NEW ep, Placed(ap, B, sio, h, st, ep)
        PROVE  h \in Seq(Tags) /\ B \in Seq(Tags)
    BY <2>PlacedList, ZenonT(30) DEF Placed, Accounts
  <2>DriverReceivePlaced.
        ASSUME AllPlaced, DriverReceive
        PROVE  AllPlaced'
    <3> USE <2>DriverReceivePlaced
    <3>1. PICK m : m = Head(toAP)
      OBVIOUS
    <3>2. /\ toAP # <<>> /\ toAP' = Tail(toAP) /\ toSIO' = toSIO /\ buffers' = buffers
          /\ held' = CASE m.op = "stopped" -> [held EXCEPT ![m.ep] = <<>>]
                       [] m.op \in {"complete", "error"} ->
                              [held EXCEPT ![m.ep] = Only(@, Tags \ {m.tag})]
                       [] OTHER -> held
          /\ stopping' = IF m.op = "stopped" THEN stopping \ {m.ep} ELSE stopping
      BY <3>1 DEF DriverReceive
    <3>3. held \in [Endpoints -> Seq(Tags)]
      BY DEF AllPlaced
    <3>4. PICK su : su = stopping'
      OBVIOUS
    <3>5. PICK g : g = held'
      OBVIOUS
    <3>6. /\ m.op = "stopped" => g = [held EXCEPT ![m.ep] = <<>>] /\ su = stopping \ {m.ep}
          /\ m.op \in {"complete", "error"} =>
                 g = [held EXCEPT ![m.ep] = Only(held[m.ep], Tags \ {m.tag})] /\ su = stopping
          /\ m.op \notin {"complete", "error", "stopped"} => g = held /\ su = stopping
      BY <3>2, <3>4, <3>5
    <3>7. ASSUME NEW ep \in Endpoints
          PROVE  Placed(Tail(toAP), TagList(buffers[ep]), toSIO, g[ep], su, ep)
      <4>1. Placed(toAP, TagList(buffers[ep]), toSIO, held[ep], stopping, ep)
        BY DEF AllPlaced
      <4>2. CASE m.ep # ep
        <5>1. g[ep] = held[ep] /\ (ep \in stopping <=> ep \in su)
          BY <3>3, <3>6, <4>2
        <5>2. Placed(Tail(toAP), TagList(buffers[ep]), toSIO, held[ep], su, ep)
          BY <3>1, <3>2, <4>1, <4>2, <5>1, <2>PlacedReadOther
        <5> QED BY <5>1, <5>2, ZenonT(30)
      <4>3. CASE m.ep = ep /\ m.op = "stopped"
        <5>1. g[ep] = <<>>
          BY <3>3, <3>6, <4>3
        <5>2. Placed(Tail(toAP), TagList(buffers[ep]), toSIO, <<>>, su, ep)
          BY <3>1, <3>2, <4>1, <4>3, <2>PlacedReadStopped, ZenonT(30)
        <5> QED BY <5>1, <5>2, ZenonT(30)
      <4>4. CASE m.ep = ep /\ m.op \in {"complete", "error"}
        <5>1. g[ep] = Only(held[ep], Tags \ {m.tag}) /\ su = stopping
          BY <3>3, <3>6, <4>4
        <5>2. Placed(Tail(toAP), TagList(buffers[ep]), toSIO, Only(held[ep], Tags \ {m.tag}),
                     stopping, ep)
          BY <3>1, <3>2, <4>1, <4>4, <2>PlacedRead, Zenon
        <5> QED BY <5>1, <5>2, Zenon
      <4>5. CASE m.op \notin {"complete", "error", "stopped"}
        <5>1. g[ep] = held[ep] /\ su = stopping
          BY <3>6, <4>5
        <5>2. Placed(Tail(toAP), TagList(buffers[ep]), toSIO, held[ep], stopping, ep)
          BY <3>1, <3>2, <4>1, <4>5, <2>PlacedReadOther
        <5> QED BY <5>1, <5>2, ZenonT(30)
      <4> QED BY <4>2, <4>3, <4>4, <4>5, ZenonT(30)
    <3>8. g \in [Endpoints -> Seq(Tags)]
      <4>1. \A ep \in Endpoints : g[ep] \in Seq(Tags)
        BY <3>7, <2>PlacedList, ZenonT(30)
      <4>2. g = held \/ \E x : g = [held EXCEPT ![m.ep] = x]
        BY <3>6
      <4>3. g = [ep \in Endpoints |-> g[ep]]
        BY <3>3, <4>2
      <4> QED BY <4>1, <4>3
    <3>9. \A ep \in Endpoints :
              Placed(toAP', TagList(buffers'[ep]), toSIO', held'[ep], stopping', ep)
      BY <3>2, <3>4, <3>5, <3>7, ZenonT(30)
    <3> QED BY <3>5, <3>8, <3>9, ZenonT(30) DEF AllPlaced
  <2> QED BY <2>DriverReceivePlaced
\* The SIO takes a message: it refuses a MAP, queues its buffer or stops.
<1>HandlePlaced.
          TypeOK /\ AllPlaced /\ apple_sio_handle_endpoint => AllPlaced'
  \* The first buffer sent is taken, behind the ones taken before.
  <2>AccountsTake.
        ASSUME NEW E, NEW C, NEW B, NEW D \in Seq(Tags), NEW R, NEW h, NEW t \in Tags,
               Accounts(E, C, B, Cat(One(t), D), R, h)
        PROVE  Accounts(E, C, Cat(B, One(t)), D, R, h)
    <3> USE <2>AccountsTake
    <3>1. One(t) \in Seq(Tags)
      BY OneType
    <3>2. Cat(B, One(t)) \in Seq(Tags) /\ Cat(D, R) \in Seq(Tags)
      BY <3>1, CatType DEF Accounts
    <3>3. Cat(B, Cat(Cat(One(t), D), R)) = Cat(Cat(B, One(t)), Cat(D, R))
      <4>1. Cat(Cat(One(t), D), R) = Cat(One(t), Cat(D, R))
        BY <3>1, CatAssoc, SMTT(20) DEF Accounts
      <4>2. Cat(B, Cat(One(t), Cat(D, R))) = Cat(Cat(B, One(t)), Cat(D, R))
        BY <3>1, <3>2, CatAssoc, SMTT(20) DEF Accounts
      <4> QED BY <4>1, <4>2, Zenon
    <3>4. Only(h, Tags \ Range(E)) = Cat(C, Cat(Cat(B, One(t)), Cat(D, R)))
      BY <3>3, Zenon DEF Accounts
    <3> QED BY <3>2, <3>4 DEF Accounts
  \* Buffers that are dropped stay listed, behind everything.
  <2>AccountsStop.
        ASSUME NEW E, NEW C, NEW B, NEW D, NEW R, NEW h,
               Accounts(E, C, B, D, R, h), D = <<>>
        PROVE  Accounts(E, C, D, D, Cat(B, R), h)
    <3> USE <2>AccountsStop
    <3>1. Cat(B, R) \in Seq(Tags)
      BY CatType DEF Accounts
    <3>2. Cat(D, R) = R /\ Cat(D, Cat(B, R)) = Cat(B, R) /\ Cat(D, Cat(D, Cat(B, R))) = Cat(D, Cat(B, R))
      BY <3>1, CatNil, Zenon DEF Accounts
    <3>3. Only(h, Tags \ Range(E)) = Cat(C, Cat(D, Cat(D, Cat(B, R))))
      BY <3>2, ZenonT(30) DEF Accounts
    <3> QED BY <3>1, <3>3 DEF Accounts
  \* The first buffer sent is refused.
  <2>AccountsRefuse.
        ASSUME NEW E, NEW C, NEW B, NEW D \in Seq(Tags), NEW R, NEW h, NEW t \in Tags,
               Accounts(E, C, B, Cat(One(t), D), R, h)
        PROVE  Accounts(Cat(E, One(t)), C, B, D, R, h)
    <3> USE <2>AccountsRefuse
    <3> DEFINE X == Range(E)
               K == Only(h, Tags \ X)
    <3>0. h \in Seq(Tags)
      BY DEF Accounts
    <3>1. One(t) \in Seq(Tags) /\ Range(One(t)) = {t}
      BY OneType, <1>RangeOne
    <3>2. /\ Cat(D, R) \in Seq(Tags) /\ Cat(C, B) \in Seq(Tags) /\ Cat(E, One(t)) \in Seq(Tags)
          /\ Cat(One(t), Cat(D, R)) \in Seq(Tags)
      <4>1. Cat(D, R) \in Seq(Tags)
        BY CatType DEF Accounts
      <4> QED BY <3>1, <4>1, CatType DEF Accounts
    <3>3. K = Cat(Cat(C, B), Cat(One(t), Cat(D, R)))
      <4>1. Cat(Cat(One(t), D), R) = Cat(One(t), Cat(D, R))
        BY <3>1, CatAssoc, SMTT(20) DEF Accounts
      <4>2. Cat(C, Cat(B, Cat(One(t), Cat(D, R)))) = Cat(Cat(C, B), Cat(One(t), Cat(D, R)))
        BY <3>1, <3>2, CatAssoc, SMTT(20) DEF Accounts
      <4> QED BY <4>1, <4>2, ZenonT(30) DEF Accounts
    <3>4. Unique(K)
      BY <1>TagsUnique, Zenon DEF Accounts
    <3>5. Only(K, Tags \ {t}) = Cat(Cat(C, B), Cat(D, R))
      <4> HIDE DEF K
      <4> QED BY <3>2, <3>3, <3>4, <1>TakeOut, SMTT(20)
    <3>6. Cat(Cat(C, B), Cat(D, R)) = Cat(C, Cat(B, Cat(D, R)))
      BY <3>2, CatAssoc, SMT DEF Accounts
    <3>7. t \in Range(h) /\ t \notin X
      <4>1. t \in Range(K)
        <5>1. Range(Cat(One(t), Cat(D, R))) = {t} \cup Range(Cat(D, R))
          BY <3>1, <3>2, <1>RangeCat, SMTT(20)
        <5>2. Range(K) = Range(Cat(C, B)) \cup Range(Cat(One(t), Cat(D, R)))
          BY <3>2, <3>3, <1>RangeCat, SMTT(20)
        <5> QED BY <5>1, <5>2
      <4>2. Range(K) = Range(h) \cap (Tags \ X)
        BY <1>TagsRangeOnly DEF Accounts
      <4> QED BY <4>1, <4>2, Zenon
    <3>8. Range(Cat(E, One(t))) = X \cup {t}
      BY <3>1, <1>RangeCat, SMTT(20) DEF Accounts
    <3>9. Only(h, Tags \ Range(Cat(E, One(t)))) = Only(K, Tags \ {t})
      <4>1. Tags \ Range(Cat(E, One(t))) = (Tags \ X) \cap (Tags \ {t})
        BY <3>8
      <4>2. Only(K, Tags \ {t}) = Only(h, (Tags \ X) \cap (Tags \ {t}))
        BY <3>0, <1>TagsTwice, SMTT(20)
      <4> QED BY <4>1, <4>2, Zenon
    <3>10. Unique(Cat(E, One(t)))
      BY <3>7, <1>UniqueMore DEF Accounts
    <3>11. Only(h, Tags \ Range(Cat(E, One(t)))) = Cat(C, Cat(B, Cat(D, R)))
      BY <3>5, <3>6, <3>9, ZenonT(30)
    <3> QED BY <3>2, <3>7, <3>8, <3>10, <3>11, ZenonT(30) DEF Accounts
  \* The SIO takes a message of another endpoint.
  <2>PlacedTakeOther.
        ASSUME NEW ap, NEW B, NEW sio, NEW h, NEW st, NEW ep, Placed(ap, B, sio, h, st, ep),
               sio # <<>>, Head(sio).ep # ep
        PROVE  Placed(ap, B, Tail(sio), h, st, ep)
    <3> USE <2>PlacedTakeOther
    <3>1. sio \in Seq(Letters)
      BY DEF Placed
    <3>2. Tail(sio) \in Seq(Letters) /\ TagsOf(sio, "map", ep) = TagsOf(Tail(sio), "map", ep)
      BY <3>1, <1>TagsOfTail, ZenonT(30) DEF Tagged
    <3>3. /\ Has(Tail(sio), "stop", ep) => Has(sio, "stop", ep)
          /\ Silent(sio, ep) => Silent(Tail(sio), ep)
          /\ LastOf(sio, "stop", ep) => LastOf(Tail(sio), "stop", ep)
      BY <3>1, <1>TailShape, ZenonT(30)
    <3> QED BY <3>2, <3>3, ZenonT(30) DEF Placed
  \* The SIO answers something about another endpoint.
  <2>PlacedAnswerOther.
        ASSUME NEW ap, NEW B, NEW sio, NEW h, NEW st, NEW ep, Placed(ap, B, sio, h, st, ep),
               NEW m \in Letters, m.ep # ep
        PROVE  Placed(Append(ap, m), B, sio, h, st, ep)
    <3> USE <2>PlacedAnswerOther
    <3>1. ap \in Seq(Letters)
      BY DEF Placed
    <3>2. /\ Append(ap, m) \in Seq(Letters)
          /\ TagsOf(Append(ap, m), "error", ep) = TagsOf(ap, "error", ep)
          /\ TagsOf(Append(ap, m), "complete", ep) = TagsOf(ap, "complete", ep)
      BY <3>1, <1>TagsOfAppend, SMTT(20) DEF Tagged
    <3>3. /\ Has(Append(ap, m), "stopped", ep) <=> Has(ap, "stopped", ep)
          /\ LastOf(ap, "stopped", ep) => LastOf(Append(ap, m), "stopped", ep)
      BY <3>1, <1>AppendShape
    <3> QED BY <3>2, <3>3, ZenonT(30) DEF Placed
  \* What is known when the SIO takes a message of the endpoint.
  <2>PlacedTaking.
        ASSUME NEW ap, NEW B, NEW sio, NEW h, NEW st, NEW ep, Placed(ap, B, sio, h, st, ep),
               sio # <<>>, Head(sio).ep = ep
        PROVE  /\ ~Has(ap, "stopped", ep)
               /\ Tail(sio) \in Seq(Letters)
               /\ Has(Tail(sio), "stop", ep) => ep \in st
               /\ LastOf(Tail(sio), "stop", ep)
    <3> USE <2>PlacedTaking
    <3>1. sio \in Seq(Letters)
      BY DEF Placed
    <3>2. /\ Has(Tail(sio), "stop", ep) => Has(sio, "stop", ep)
          /\ Silent(sio, ep) => Head(sio).ep # ep
          /\ LastOf(sio, "stop", ep) => LastOf(Tail(sio), "stop", ep)
      BY <3>1, <1>TailShape, Zenon
    <3>3. Tail(sio) \in Seq(Letters)
      BY <3>1, SMT
    <3> QED BY <3>2, <3>3, ZenonT(30) DEF Placed
  \* The SIO refuses a MAP.
  <2>PlacedRefuse.
        ASSUME NEW ap, NEW B, NEW sio, NEW h, NEW st, NEW ep, Placed(ap, B, sio, h, st, ep),
               sio # <<>>, Head(sio).ep = ep, Head(sio).op = "map",
               NEW m \in Letters, m.op = "error", m.ep = ep, m.tag = Head(sio).tag
        PROVE  Placed(Append(ap, m), B, Tail(sio), h, st, ep)
    <3> USE <2>PlacedRefuse
    <3>1. ap \in Seq(Letters) /\ sio \in Seq(Letters)
      BY ZenonT(30) DEF Placed
    <3>2. /\ Append(ap, m) \in Seq(Letters)
          /\ TagsOf(Append(ap, m), "error", ep) = Cat(TagsOf(ap, "error", ep), One(m.tag))
          /\ TagsOf(Append(ap, m), "complete", ep) = TagsOf(ap, "complete", ep)
      BY <3>1, <1>TagsOfAppend, SMTT(20) DEF Tagged
    <3>3. TagsOf(sio, "map", ep) = Cat(One(m.tag), TagsOf(Tail(sio), "map", ep))
      BY <3>1, <1>TagsOfTail, SMTT(20) DEF Tagged
    <3>4. m.tag \in Tags
      BY DEF Letters, Tagged
    <3>5. /\ ~Has(ap, "stopped", ep)
          /\ Tail(sio) \in Seq(Letters)
          /\ Has(Tail(sio), "stop", ep) => ep \in st
          /\ LastOf(Tail(sio), "stop", ep)
      BY <2>PlacedTaking, ZenonT(30)
    <3>6. ~Has(Append(ap, m), "stopped", ep) /\ LastOf(Append(ap, m), "stopped", ep)
      <4>1. m.op # "stopped"
        OBVIOUS
      <4>2. LastOf(ap, "stopped", ep)
        BY ZenonT(30) DEF Placed
      <4> QED BY <3>1, <3>5, <4>1, <4>2, <1>AppendShape, SMTT(20)
    <3>7. PICK R \in Seq(Tags) :
              /\ Accounts(TagsOf(ap, "error", ep), TagsOf(ap, "complete", ep), B,
                          TagsOf(sio, "map", ep), R, h)
              /\ R = <<>>
      BY <3>5, ZenonT(30) DEF Placed
    <3>8. TagsOf(Tail(sio), "map", ep) \in Seq(Tags)
      BY <3>5, <1>TagsOfType, ZenonT(30) DEF Tagged
    <3>9. Accounts(Cat(TagsOf(ap, "error", ep), One(m.tag)), TagsOf(ap, "complete", ep), B,
                   TagsOf(Tail(sio), "map", ep), R, h)
      BY <3>3, <3>4, <3>7, <3>8, <2>AccountsRefuse, ZenonT(30)
    <3>10. Accounts(TagsOf(Append(ap, m), "error", ep), TagsOf(Append(ap, m), "complete", ep), B,
                    TagsOf(Tail(sio), "map", ep), R, h)
      BY <3>2, <3>9, ZenonT(30)
    <3> QED BY <3>2, <3>5, <3>6, <3>7, <3>10, ZenonT(30) DEF Placed
  \* The SIO takes the buffer of a MAP.
  <2>PlacedTake.
        ASSUME NEW ap, NEW B, NEW sio, NEW h, NEW st, NEW ep, Placed(ap, B, sio, h, st, ep),
               sio # <<>>, Head(sio).ep = ep, Head(sio).op = "map"
        PROVE  Placed(ap, Cat(B, One(Head(sio).tag)), Tail(sio), h, st, ep)
    <3> USE <2>PlacedTake
    <3>1. PICK t : t = Head(sio).tag
      OBVIOUS
    <3>2. sio \in Seq(Letters)
      BY DEF Placed
    <3>3. TagsOf(sio, "map", ep) = Cat(One(t), TagsOf(Tail(sio), "map", ep))
      BY <3>1, <3>2, <1>TagsOfTail, ZenonT(30) DEF Tagged
    <3>4. t \in Tags
      <4>1. Head(sio) \in Letters
        BY <3>2, SMT
      <4> QED BY <3>1, <4>1 DEF Letters, Tagged
    <3>5. /\ ~Has(ap, "stopped", ep)
          /\ Tail(sio) \in Seq(Letters)
          /\ Has(Tail(sio), "stop", ep) => ep \in st
          /\ LastOf(Tail(sio), "stop", ep)
      BY <2>PlacedTaking, ZenonT(30)
    <3>6. PICK R \in Seq(Tags) :
              /\ Accounts(TagsOf(ap, "error", ep), TagsOf(ap, "complete", ep), B,
                          TagsOf(sio, "map", ep), R, h)
              /\ R = <<>>
      BY <3>5 DEF Placed
    <3>7. TagsOf(Tail(sio), "map", ep) \in Seq(Tags)
      BY <3>5, <1>TagsOfType, ZenonT(30) DEF Tagged
    <3>8. Accounts(TagsOf(ap, "error", ep), TagsOf(ap, "complete", ep), Cat(B, One(t)),
                   TagsOf(Tail(sio), "map", ep), R, h)
      BY <3>3, <3>4, <3>6, <3>7, <2>AccountsTake
    <3>9. Placed(ap, Cat(B, One(t)), Tail(sio), h, st, ep)
      BY <3>5, <3>6, <3>8, ZenonT(30) DEF Placed
    <3> QED BY <3>1, <3>9, ZenonT(30)
  \* The SIO handles a STOP.
  <2>PlacedStop.
        ASSUME NEW ap, NEW B, NEW sio, NEW h, NEW st, NEW ep, Placed(ap, B, sio, h, st, ep),
               sio # <<>>, Head(sio).ep = ep, Head(sio).op = "stop",
               NEW m \in Letters, m.op = "stopped", m.ep = ep
        PROVE  Placed(Append(ap, m), <<>>, Tail(sio), h, st, ep)
    <3> USE <2>PlacedStop
    <3>1. ap \in Seq(Letters) /\ sio \in Seq(Letters)
      BY ZenonT(30) DEF Placed
    <3>2. /\ Append(ap, m) \in Seq(Letters)
          /\ TagsOf(Append(ap, m), "error", ep) = TagsOf(ap, "error", ep)
          /\ TagsOf(Append(ap, m), "complete", ep) = TagsOf(ap, "complete", ep)
      BY <3>1, <1>TagsOfAppend, SMTT(20) DEF Tagged
    <3>3. TagsOf(sio, "map", ep) = TagsOf(Tail(sio), "map", ep)
      BY <3>1, <1>TagsOfTail, ZenonT(30) DEF Tagged
    <3>4. /\ ~Has(ap, "stopped", ep)
          /\ Tail(sio) \in Seq(Letters)
          /\ Has(Tail(sio), "stop", ep) => ep \in st
          /\ LastOf(Tail(sio), "stop", ep)
      BY <2>PlacedTaking, ZenonT(30)
    <3>5. ep \in st /\ Silent(Tail(sio), ep)
      <4>1. Has(sio, "stop", ep) /\ (LastOf(sio, "stop", ep) => Silent(Tail(sio), ep))
        BY <3>1, <1>TailShape, ZenonT(30)
      <4> QED BY <4>1, ZenonT(30) DEF Placed
    <3>6. TagsOf(Tail(sio), "map", ep) = <<>>
      <4>1. PICK r : r = Tail(sio)
        BY ZenonT(30)
      <4>2. r \in Seq(Letters) /\ Silent(r, ep)
        BY <3>4, <3>5, <4>1, ZenonT(30)
      <4>3. TagsOf(r, "map", ep) # <<>> <=> \E i \in 1 .. Len(r) : r[i].op = "map" /\ r[i].ep = ep
        BY <4>2, <1>TagsOfSome, SMTT(20)
      <4>4. TagsOf(r, "map", ep) = <<>>
        BY <4>2, <4>3 DEF Silent
      <4> QED BY <4>1, <4>4, ZenonT(30)
    <3>7. Has(Append(ap, m), "stopped", ep) /\ LastOf(Append(ap, m), "stopped", ep)
      <4>1. LastOf(ap, "stopped", ep)
        BY ZenonT(30) DEF Placed
      <4> QED BY <3>1, <3>4, <4>1, <1>AppendShape, ZenonT(30)
    <3>8. PICK R \in Seq(Tags) :
              Accounts(TagsOf(ap, "error", ep), TagsOf(ap, "complete", ep), B,
                       TagsOf(sio, "map", ep), R, h)
      BY ZenonT(30) DEF Placed
    <3>9. PICK D : D = TagsOf(sio, "map", ep)
      BY ZenonT(30)
    <3>10. D = <<>> /\ D = TagsOf(Tail(sio), "map", ep)
      BY <3>3, <3>6, <3>9, ZenonT(30)
    <3>11. Accounts(TagsOf(ap, "error", ep), TagsOf(ap, "complete", ep), D, D, Cat(B, R), h)
      BY <3>8, <3>9, <3>10, <2>AccountsStop, ZenonT(30)
    <3>12. Cat(B, R) \in Seq(Tags)
      BY <3>11, Zenon DEF Accounts
    <3>13. Accounts(TagsOf(Append(ap, m), "error", ep), TagsOf(Append(ap, m), "complete", ep), D,
                    TagsOf(Tail(sio), "map", ep), Cat(B, R), h)
      BY <3>2, <3>10, <3>11, ZenonT(30)
    <3>14. Placed(Append(ap, m), D, Tail(sio), h, st, ep)
      BY <3>2, <3>4, <3>5, <3>7, <3>10, <3>12, <3>13, ZenonT(30) DEF Placed
    <3> QED BY <3>10, <3>14, ZenonT(30)
  <2>HandlePlaced.
        ASSUME TypeOK, AllPlaced, apple_sio_handle_endpoint
        PROVE  AllPlaced'
    <3> USE <2>HandlePlaced
    <3>1. PICK m : m = Head(toSIO)
      OBVIOUS
    <3>2. /\ toSIO # <<>> /\ toSIO' = Tail(toSIO) /\ held' = held /\ stopping' = stopping
          /\ HandleMap(m) \/ HandleStop(m)
      BY <3>1 DEF apple_sio_handle_endpoint
    <3>3. m \in Messages
      BY <3>1, <3>2, SMTT(20) DEF TypeOK
    <3>4. m.ep \in Endpoints /\ (m.op = "map" => m.tag \in Tags)
      BY <3>3 DEF Messages
    <3>5. held' \in [Endpoints -> Seq(Tags)] /\ buffers \in [Endpoints -> Seq(Buffers)]
      BY <3>2, ZenonT(30) DEF AllPlaced, TypeOK
    <3>6. \A ep \in Endpoints :
              Placed(toAP, TagList(buffers[ep]), toSIO, held[ep], stopping, ep)
      BY DEF AllPlaced
    <3>7. CASE m.op = "map" /\ toAP' = Append(toAP, Message("error", m.ep, m.tag))
               /\ buffers' = buffers
      <4>1. PICK a : a = Message("error", m.ep, m.tag)
        OBVIOUS
      <4>2. a \in Letters /\ a.op = "error" /\ a.ep = m.ep /\ a.tag = m.tag
        BY <3>4, <3>7, <4>1 DEF Message, Letters, Tagged
      <4>3. ASSUME NEW ep \in Endpoints
            PROVE  Placed(Append(toAP, a), TagList(buffers[ep]), Tail(toSIO), held[ep], stopping, ep)
        <5>1. CASE ep = m.ep
          BY <3>1, <3>2, <3>6, <3>7, <4>2, <5>1, <2>PlacedRefuse, ZenonT(30)
        <5>2. CASE ep # m.ep
          <6>1. Placed(toAP, TagList(buffers[ep]), Tail(toSIO), held[ep], stopping, ep)
            BY <3>1, <3>2, <3>6, <5>2, <2>PlacedTakeOther, ZenonT(30)
          <6> QED BY <4>2, <5>2, <6>1, <2>PlacedAnswerOther, ZenonT(30)
        <5> QED BY <5>1, <5>2, ZenonT(30)
      <4>4. toAP' = Append(toAP, a) /\ buffers' = buffers
        BY <3>7, <4>1
      <4>5. \A ep \in Endpoints :
                Placed(toAP', TagList(buffers'[ep]), toSIO', held'[ep], stopping', ep)
        BY <3>2, <4>3, <4>4, ZenonT(30)
      <4> QED BY <3>5, <4>5 DEF AllPlaced
    <3>8. ASSUME m.op = "map", toAP' = toAP, NEW size \in Sizes[m.ep],
                 buffers' = [buffers EXCEPT ![m.ep] =
                     Append(@, [tag |-> m.tag, size |-> size, completed |-> 0, mapped |-> FALSE])]
          PROVE  AllPlaced'
      <4>1. PICK b : b = [tag |-> m.tag, size |-> size, completed |-> 0, mapped |-> FALSE]
        BY ZenonT(30)
      <4>2. b \in Buffers /\ b.tag = m.tag
        <5>1. size \in Nat /\ m.tag \in Tags
          BY <3>4, <3>8, SIOConstants
        <5> QED BY <4>1, <5>1, SMTT(20) DEF Buffers
      <4>3. PICK q : q = buffers[m.ep]
        OBVIOUS
      <4>4. q \in Seq(Buffers)
        BY <3>4, <3>5, <4>3
      <4>5. buffers' = [buffers EXCEPT ![m.ep] = Append(q, b)]
        BY <3>8, <4>1, <4>3, ZenonT(30)
      <4>6. TagList(Append(q, b)) = Cat(TagList(q), One(m.tag))
        BY <4>2, <4>4, OneMoreBuffer, ZenonT(30)
      <4>7. ASSUME NEW ep \in Endpoints
            PROVE  Placed(toAP, TagList(buffers'[ep]), Tail(toSIO), held[ep], stopping, ep)
        <5>1. CASE ep = m.ep
          <6>1. Placed(toAP, TagList(q), toSIO, held[ep], stopping, ep)
            BY <3>6, <4>3, <5>1, ZenonT(30)
          <6>2. Placed(toAP, Cat(TagList(q), One(m.tag)), Tail(toSIO), held[ep], stopping, ep)
            BY <3>1, <3>2, <3>8, <5>1, <6>1, <2>PlacedTake, ZenonT(30)
          <6>3. buffers'[ep] = Append(q, b)
            BY <3>4, <3>5, <4>5, <5>1
          <6> QED BY <4>6, <6>2, <6>3, ZenonT(30)
        <5>2. CASE ep # m.ep
          <6>1. Placed(toAP, TagList(buffers[ep]), Tail(toSIO), held[ep], stopping, ep)
            BY <3>1, <3>2, <3>6, <5>2, <2>PlacedTakeOther, ZenonT(30)
          <6>2. buffers'[ep] = buffers[ep]
            BY <3>5, <4>5, <5>2
          <6> QED BY <6>1, <6>2, ZenonT(30)
        <5> QED BY <5>1, <5>2, Zenon
      <4>8. \A ep \in Endpoints :
                Placed(toAP', TagList(buffers'[ep]), toSIO', held'[ep], stopping', ep)
        BY <3>2, <3>8, <4>7, ZenonT(30)
      <4> QED BY <3>5, <4>8, ZenonT(30) DEF AllPlaced
    <3>9. CASE HandleStop(m)
      <4>1. PICK a : a = Message("stopped", m.ep, NoTag)
        OBVIOUS
      <4>2. a \in Letters /\ a.op = "stopped" /\ a.ep = m.ep
        BY <3>4, <4>1 DEF Message, Letters, Tagged
      <4>3. /\ m.op = "stop" /\ toAP' = Append(toAP, a)
            /\ buffers' = [buffers EXCEPT ![m.ep] = <<>>]
        BY <3>9, <4>1 DEF HandleStop
      <4>4. ASSUME NEW ep \in Endpoints
            PROVE  Placed(Append(toAP, a), TagList(buffers'[ep]), Tail(toSIO), held[ep], stopping, ep)
        <5>1. CASE ep = m.ep
          <6>1. Placed(Append(toAP, a), <<>>, Tail(toSIO), held[ep], stopping, ep)
            BY <3>1, <3>2, <3>6, <4>2, <4>3, <5>1, <2>PlacedStop, ZenonT(30)
          <6>2. buffers'[ep] = <<>>
            BY <3>4, <3>5, <4>3, <5>1
          <6> QED BY <6>1, <6>2, TagListNone, ZenonT(30)
        <5>2. CASE ep # m.ep
          <6>1. Placed(toAP, TagList(buffers[ep]), Tail(toSIO), held[ep], stopping, ep)
            BY <3>1, <3>2, <3>6, <5>2, <2>PlacedTakeOther, Zenon
          <6>2. Placed(Append(toAP, a), TagList(buffers[ep]), Tail(toSIO), held[ep], stopping, ep)
            BY <4>2, <5>2, <6>1, <2>PlacedAnswerOther, ZenonT(30)
          <6>3. buffers'[ep] = buffers[ep]
            BY <3>5, <4>3, <5>2
          <6> QED BY <6>2, <6>3, ZenonT(30)
        <5> QED BY <5>1, <5>2, Zenon
      <4>5. \A ep \in Endpoints :
                Placed(toAP', TagList(buffers'[ep]), toSIO', held'[ep], stopping', ep)
        BY <3>2, <4>3, <4>4, ZenonT(30)
      <4> QED BY <3>5, <4>5 DEF AllPlaced
    <3> QED BY <3>2, <3>7, <3>8, <3>9, ZenonT(30) DEF HandleMap
  <2> QED BY <2>HandlePlaced
<1>InitPlaced. Init => AllPlaced
  <2> SUFFICES ASSUME Init PROVE AllPlaced
    OBVIOUS
  <2>1. /\ toAP = <<>> /\ toSIO = <<>>
        /\ buffers = [ep \in Endpoints |-> <<>>] /\ held = [ep \in Endpoints |-> <<>>]
    BY DEF Init, SIOInit
  <2>2. \A ep \in Endpoints : buffers[ep] = <<>> /\ held[ep] = <<>>
    BY <2>1
  <2>3. held \in [Endpoints -> Seq(Tags)]
    BY <2>1, SMT
  <2>4. \A ep \in Endpoints : Placed(<<>>, <<>>, <<>>, <<>>, stopping, ep)
    BY <1>PlacedAtFirst
  <2>5. \A ep \in Endpoints :
            Placed(toAP, TagList(buffers[ep]), toSIO, held[ep], stopping, ep)
    BY <2>1, <2>2, <2>4, TagListNone, ZenonT(30)
  <2> QED BY <2>3, <2>5 DEF AllPlaced
<1>ResetPlaced.
      ASSUME apple_sio_reset_hold
      PROVE  AllPlaced'
  <2> USE <1>ResetPlaced
  <2>1. /\ toAP' = <<>> /\ toSIO' = <<>>
        /\ buffers' = [ep \in Endpoints |-> <<>>] /\ held' = [ep \in Endpoints |-> <<>>]
    BY DEF apple_sio_reset_hold
  <2>2. \A ep \in Endpoints : buffers'[ep] = <<>> /\ held'[ep] = <<>>
    BY <2>1
  <2>3. held' \in [Endpoints -> Seq(Tags)]
    BY <2>1, SMT
  <2>4. PICK su : su = stopping'
    OBVIOUS
  <2>5. \A ep \in Endpoints : Placed(<<>>, <<>>, <<>>, <<>>, su, ep)
    BY <1>PlacedAtFirst
  <2>6. \A ep \in Endpoints :
            Placed(toAP', TagList(buffers'[ep]), toSIO', held'[ep], stopping', ep)
    BY <2>1, <2>2, <2>4, <2>5, TagListNone, ZenonT(30)
  <2> QED BY <2>3, <2>6 DEF AllPlaced
<1>PlacedAccounted.
      AllPlaced => BuffersAccounted
  <2>FirstPart.
        \A a, b \in Seq(Tags) : /\ Len(a) \in 0 .. Len(Cat(a, b))
                                /\ a = SubSeq(Cat(a, b), 1, Len(a))
    <3> SUFFICES ASSUME NEW a \in Seq(Tags), NEW b \in Seq(Tags)
                 PROVE  /\ Len(a) \in 0 .. Len(Cat(a, b))
                        /\ a = SubSeq(Cat(a, b), 1, Len(a))
      OBVIOUS
    <3> QED BY SMT DEF Cat
  <2>PlacedAccounted. AllPlaced => BuffersAccounted
    <3> SUFFICES ASSUME AllPlaced, NEW ep \in Endpoints
                 PROVE  LET refused == Range(TagsOf(toAP, "error", ep))
                            kept == Only(held[ep], Tags \ refused)
                            places == TagsOf(toAP, "complete", ep) \o BufferTags(ep)
                                          \o TagsOf(toSIO, "map", ep)
                        IN  IF TagsOf(toAP, "stopped", ep) # <<>>
                            THEN \E n \in 0 .. Len(kept) : places = SubSeq(kept, 1, n)
                            ELSE places = kept
      BY Zenon DEF BuffersAccounted
    <3>1. PICK E : E = TagsOf(toAP, "error", ep)
      OBVIOUS
    <3>2. PICK C : C = TagsOf(toAP, "complete", ep)
      OBVIOUS
    <3>3. PICK B : B = BufferTags(ep)
      OBVIOUS
    <3>4. PICK D : D = TagsOf(toSIO, "map", ep)
      OBVIOUS
    <3>5. PICK h : h = held[ep]
      OBVIOUS
    <3>6. PICK K : K = Only(h, Tags \ Range(E))
      OBVIOUS
    <3>7. PICK P : P = Cat(Cat(C, B), D)
      OBVIOUS
    <3>8. Placed(toAP, B, toSIO, h, stopping, ep)
      <4>1. B = TagList(buffers[ep])
        BY <3>3 DEF BufferTags, TagList
      <4>2. Placed(toAP, TagList(buffers[ep]), toSIO, held[ep], stopping, ep)
        BY DEF AllPlaced
      <4> QED BY <3>5, <4>1, <4>2, ZenonT(30)
    <3>9. PICK R \in Seq(Tags) : Accounts(E, C, B, D, R, h) /\ (R # <<>> => Has(toAP, "stopped", ep))
      BY <3>1, <3>2, <3>4, <3>8, ZenonT(30) DEF Placed
    <3>10. /\ C \in Seq(Tags) /\ B \in Seq(Tags) /\ D \in Seq(Tags)
           /\ K = Cat(C, Cat(B, Cat(D, R)))
      BY <3>6, <3>9 DEF Accounts
    <3>11. Cat(C, B) \in Seq(Tags) /\ Cat(D, R) \in Seq(Tags) /\ P \in Seq(Tags)
      BY <3>7, <3>10, CatType
    <3>12. K = Cat(P, R)
      <4>1. Cat(C, Cat(B, Cat(D, R))) = Cat(Cat(C, B), Cat(D, R))
        BY <3>10, <3>11, CatAssoc, SMTT(20)
      <4>2. Cat(Cat(C, B), Cat(D, R)) = Cat(Cat(Cat(C, B), D), R)
        BY <3>10, <3>11, CatAssoc, SMTT(20)
      <4> QED BY <3>7, <3>10, <4>1, <4>2, ZenonT(30)
    <3>13. TagsOf(toAP, "stopped", ep) # <<>> <=> Has(toAP, "stopped", ep)
      <4>1. toAP \in Seq(Letters)
        BY <3>8 DEF Placed
      <4> QED BY <4>1, <1>TagsOfSome, SMTT(20) DEF Has
    <3>14. IF TagsOf(toAP, "stopped", ep) # <<>>
           THEN \E n \in 0 .. Len(K) : P = SubSeq(K, 1, n)
           ELSE P = K
      <4>1. CASE R = <<>>
        <5>1. K = P
          BY <3>11, <3>12, <4>1, CatNil
        <5>2. Len(P) \in 0 .. Len(K) /\ P = SubSeq(K, 1, Len(P))
          BY <3>11, <3>12, <2>FirstPart, ZenonT(30)
        <5> QED BY <5>1, <5>2, ZenonT(30)
      <4>2. CASE R # <<>>
        <5>1. TagsOf(toAP, "stopped", ep) # <<>>
          BY <3>9, <3>13, <4>2
        <5>2. Len(P) \in 0 .. Len(K) /\ P = SubSeq(K, 1, Len(P))
          BY <3>11, <3>12, <2>FirstPart, Zenon
        <5> QED BY <5>1, <5>2, Zenon
      <4> QED BY <4>1, <4>2
    <3>15. P = TagsOf(toAP, "complete", ep) \o BufferTags(ep) \o TagsOf(toSIO, "map", ep)
      BY <3>2, <3>3, <3>4, <3>7, ZenonT(30) DEF Cat
    <3>16. K = Only(held[ep], Tags \ Range(TagsOf(toAP, "error", ep)))
      BY <3>1, <3>5, <3>6, ZenonT(30)
    <3> QED BY <3>14, <3>15, <3>16, ZenonT(30)
  <2> QED BY <2>PlacedAccounted
<1> QED BY <1>InitPlaced, <1>PlacedAccounted, <1>ResetPlaced, <1>DriverReceivePlaced,
           <1>HandlePlaced,
           <1>DriverSendPlaced, <1>TransferredPlaced, ZenonT(30)

LEMMA MinOfTwo ==
    ASSUME NEW x \in Int, NEW y \in Int
    PROVE  Min({x, y}) = IF x <= y THEN x ELSE y
<1> DEFINE m == IF x <= y THEN x ELSE y
<1>1. m \in {x, y} /\ \A z \in {x, y} : m <= z
  BY SMT
<1>2. \A u \in {x, y} : (\A z \in {x, y} : u <= z) => u = m
  BY SMT
<1> QED BY <1>1, <1>2 DEF Min

LEMMA MinOfThree ==
    ASSUME NEW x \in Int, NEW y \in Int, NEW z \in Int
    PROVE  /\ Min({x, y, z}) \in {x, y, z}
           /\ Min({x, y, z}) <= x /\ Min({x, y, z}) <= y /\ Min({x, y, z}) <= z
<1>1. \E u \in {x, y, z} : \A v \in {x, y, z} : u <= v
  BY SMTT(20)
<1> QED BY <1>1 DEF Min

-----------------------------------------------------------------------------
(* What apple_sio_dma_remaining adds up.                                   *)

\* The room in the first i buffers of a queue, and in all of them.
RoomTo(q) ==
    CHOOSE sum : sum = [i \in 0 .. Len(q) |->
                            IF i = 0 THEN 0 ELSE sum[i - 1] + q[i].size - q[i].completed]
Room(q) == RoomTo(q)[Len(q)]

LEMMA RemainingIsRoom ==
    ASSUME NEW ep \in Endpoints
    PROVE  apple_sio_dma_remaining(ep) = Room(buffers[ep])
BY DEF apple_sio_dma_remaining, Room, RoomTo

LEMMA RoomToRec ==
    ASSUME NEW q \in Seq(Buffers)
    PROVE  /\ RoomTo(q) \in [0 .. Len(q) -> Nat]
           /\ RoomTo(q)[0] = 0
           /\ \A i \in 1 .. Len(q) :
                  RoomTo(q)[i] = RoomTo(q)[i - 1] + q[i].size - q[i].completed
<1> DEFINE n == Len(q)
           step == [x \in Nat \X (1 .. n) |-> x[1] + q[x[2]].size - q[x[2]].completed]
           f == RoomTo(q)
<1>0. n \in Nat
  BY SMTT(20)
<1>1. \A i \in 1 .. n : q[i].size \in Nat /\ q[i].completed \in Nat /\ q[i].completed <= q[i].size
  BY SMTT(20) DEF Buffers
<1>2. step \in [Nat \X (1 .. n) -> Nat]
  <2> SUFFICES ASSUME NEW a \in Nat, NEW i \in 1 .. n
               PROVE a + q[i].size - q[i].completed \in Nat
    BY Zenon
  <2> QED BY <1>1, SMTT(20)
<1>3. PICK g \in [0 .. n -> Nat] :
          Solves(g, n, 0, step)
  <2> HIDE DEF step, n
  <2>1. 0 \in Nat
    OBVIOUS
  <2> QED BY ONLY <1>0, <1>2, <2>1, RecursionExists, Zenon
<1>4. g = [i \in 0 .. n |-> IF i = 0 THEN 0 ELSE g[i - 1] + q[i].size - q[i].completed]
  <2>1. ASSUME NEW i \in 1 .. n
        PROVE  g[i] = g[i - 1] + q[i].size - q[i].completed
    <3>1. g[i - 1] \in Nat
      BY SMTT(20)
    <3>2. step[<<g[i - 1], i>>] = g[i - 1] + q[i].size - q[i].completed
      BY <3>1
    <3> QED BY <1>3, <3>2, Zenon DEF Solves
  <2> QED BY <1>3, <2>1, SMT DEF Solves
<1>5. f = [i \in 0 .. n |-> IF i = 0 THEN 0 ELSE f[i - 1] + q[i].size - q[i].completed]
  BY <1>4 DEF RoomTo
<1> HIDE DEF f
<1>6. f[0] = 0 /\ \A i \in 1 .. n : f[i] = f[i - 1] + q[i].size - q[i].completed
  BY <1>0, <1>5, SMTT(20)
<1>7. \A i \in 0 .. n : f[i] \in Nat
  <2> DEFINE S == {i \in 0 .. n : f[i] \in Nat}
  <2>1. 0 \in S
    BY <1>0, <1>6, SMTT(20)
  <2>2. ASSUME NEW i \in 1 .. n, i - 1 \in S PROVE i \in S
    <3>1. f[i - 1] \in Nat /\ f[i] = f[i - 1] + q[i].size - q[i].completed
      BY <1>6, <2>2
    <3> QED BY <1>1, <3>1, SMTT(20)
  <2> HIDE DEF S
  <2>3. \A i \in 0 .. n : i \in S
    BY <1>0, <2>1, <2>2, InductionTo, Zenon
  <2> QED BY <2>3 DEF S
<1>8. f \in [0 .. n -> Nat]
  BY <1>5, <1>7
<1> QED BY <1>6, <1>8 DEF f

LEMMA RoomType == \A q \in Seq(Buffers) : Room(q) \in Nat
BY RoomToRec, SMT DEF Room

-----------------------------------------------------------------------------
(* The loop of apple_sio_dma_read and apple_sio_dma_write.                 *)

Start(len, bad) ==
    [left |-> len, stuck |-> FALSE, unmappable |-> bad, rest |-> <<>>, done |-> <<>>]

\* The loop over a queue, and where it may be after any of its turns.
Turns(q, len, bad) ==
    CHOOSE after : after = [i \in 0 .. Len(q) |->
        IF i = 0 THEN Start(len, bad) ELSE Use(after[i - 1], q[i])]

Accs(bad) ==
    [left : Nat, stuck : BOOLEAN, unmappable : {bad}, rest : Seq(Buffers), done : Seq(Tags)]

LEMMA TransferIsTurns ==
    ASSUME NEW ep \in Endpoints, NEW len, NEW bad
    PROVE  Transfer(ep, len, bad) = Turns(buffers[ep], len, bad)[Len(buffers[ep])]
BY DEF Transfer, Turns, Start

\* What one turn, from a to u, does with buffer b: there is nothing more to move
\* or a failure before; a failure now; the buffer is used up; the buffer is used
\* in part, for all that was left.
Skips(a, b, u) ==
    /\ a.left = 0 \/ a.stuck
    /\ u.left = a.left /\ u.stuck = a.stuck
    /\ u.rest = Append(a.rest, b) /\ u.done = a.done
Sticks(a, b, u) ==
    /\ a.left > 0 /\ ~a.stuck
    /\ u.left = a.left /\ u.stuck
    /\ u.rest = Append(a.rest, b) /\ u.done = a.done
UsesUp(a, b, u) ==
    /\ a.left > 0 /\ ~a.stuck
    /\ u.left = a.left - (b.size - b.completed) /\ ~u.stuck
    /\ u.rest = a.rest /\ u.done = Append(a.done, b.tag)
UsesPart(a, b, u) ==
    /\ a.left > 0 /\ ~a.stuck
    /\ u.left = 0 /\ ~u.stuck
    /\ \E c \in Buffers :
          /\ u.rest = Append(a.rest, c) /\ c.tag = b.tag
          /\ c.size - c.completed = b.size - b.completed - a.left
    /\ u.done = a.done

LEMMA UseCases ==
    ASSUME NEW bad, NEW a \in Accs(bad), NEW b \in Buffers
    PROVE  /\ Use(a, b) \in Accs(bad)
           /\ \/ Skips(a, b, Use(a, b)) \/ Sticks(a, b, Use(a, b))
              \/ UsesUp(a, b, Use(a, b)) \/ UsesPart(a, b, Use(a, b))
<1> DEFINE n == Min({a.left, b.size - b.completed})
           u == Use(a, b)
<1>1. /\ a.left \in Nat /\ b.size \in Nat /\ b.completed \in Nat
      /\ b.size - b.completed \in Nat
  BY SMT DEF Accs, Buffers
<1>2. n = IF a.left <= b.size - b.completed THEN a.left ELSE b.size - b.completed
  BY <1>1, MinOfTwo, SMT
<1>3. Append(a.rest, b) \in Seq(Buffers) /\ Append(a.done, b.tag) \in Seq(Tags)
  BY SMT DEF Accs, Buffers
<1>4. CASE a.left = 0 \/ a.stuck
  <2>1. u = [a EXCEPT !.rest = Append(@, b)]
    BY <1>4 DEF Use
  <2> HIDE DEF u
  <2>2. u \in Accs(bad) /\ Skips(a, b, u)
    BY <1>3, <1>4, <2>1, Zenon DEF Accs, Skips
  <2> QED BY <2>2 DEF u
<1>5. CASE ~(a.left = 0 \/ a.stuck) /\ ~b.mapped /\ b.tag = a.unmappable
  <2>1. u = [a EXCEPT !.rest = Append(@, b), !.stuck = TRUE]
    BY <1>5 DEF Use
  <2> HIDE DEF u
  <2>2. u \in Accs(bad)
    BY <1>3, <2>1, Zenon DEF Accs
  <2>3. Sticks(a, b, u)
    BY <1>1, <1>5, <2>1, SMTT(20) DEF Sticks, Accs
  <2> QED BY <2>2, <2>3 DEF u
<1>6. CASE ~(a.left = 0 \/ a.stuck) /\ ~(~b.mapped /\ b.tag = a.unmappable)
           /\ b.completed + n >= b.size
  <2>1. u = [a EXCEPT !.left = @ - n, !.done = Append(@, b.tag)]
    BY <1>6 DEF Use
  <2>2. n = b.size - b.completed /\ a.left - n \in Nat
    BY <1>1, <1>2, <1>6, SMTT(20)
  <2> HIDE DEF u, n
  <2>3. u \in Accs(bad)
    BY <1>3, <2>1, <2>2, Zenon DEF Accs
  <2>4. UsesUp(a, b, u)
    BY <1>1, <1>6, <2>1, <2>2, SMTT(20) DEF UsesUp, Accs
  <2> QED BY <2>3, <2>4 DEF u
<1>7. CASE ~(a.left = 0 \/ a.stuck) /\ ~(~b.mapped /\ b.tag = a.unmappable)
           /\ ~(b.completed + n >= b.size)
  <2> DEFINE c == [b EXCEPT !.completed = @ + n, !.mapped = TRUE]
  <2>1. u = [a EXCEPT !.left = @ - n, !.rest = Append(@, c)]
    BY <1>7 DEF Use
  <2>2. n = a.left /\ a.left - n = 0 /\ b.completed + n \in Nat /\ b.completed + n <= b.size
    BY <1>1, <1>2, <1>7, SMTT(20)
  <2> HIDE DEF u, n
  <2>3. c \in Buffers
    BY <2>2, Zenon DEF Buffers
  <2>4. c.tag = b.tag /\ c.size = b.size /\ c.completed = b.completed + n
    BY DEF Buffers
  <2> HIDE DEF c
  <2>5. Append(a.rest, c) \in Seq(Buffers)
    BY <2>3, SMTT(20) DEF Accs
  <2>6. u \in Accs(bad)
    <3>1. u = [left |-> 0, stuck |-> a.stuck, unmappable |-> a.unmappable,
               rest |-> Append(a.rest, c), done |-> a.done]
      BY <2>1, <2>2, Zenon DEF Accs
    <3> QED BY <2>5, <3>1 DEF Accs
  <2>7. /\ u.left = 0 /\ u.stuck = a.stuck /\ u.rest = Append(a.rest, c)
        /\ u.done = a.done
    BY <2>1, <2>2 DEF Accs
  <2>8. c.size - c.completed = b.size - b.completed - a.left
    BY <1>1, <2>2, <2>4, SMTT(20)
  <2>9. a.left > 0 /\ ~a.stuck
    BY <1>1, <1>7, SMTT(20)
  <2>10. UsesPart(a, b, u)
    BY <2>3, <2>4, <2>7, <2>8, <2>9 DEF UsesPart
  <2> QED BY <2>6, <2>10 DEF u
<1> QED BY <1>4, <1>5, <1>6, <1>7

LEMMA TurnsRec ==
    ASSUME NEW q \in Seq(Buffers), NEW len \in Nat, NEW bad
    PROVE  /\ Turns(q, len, bad) \in [0 .. Len(q) -> Accs(bad)]
           /\ Turns(q, len, bad)[0] = Start(len, bad)
           /\ \A i \in 1 .. Len(q) :
                  Turns(q, len, bad)[i] = Use(Turns(q, len, bad)[i - 1], q[i])
<1> DEFINE n == Len(q)
           A == Accs(bad)
           base == Start(len, bad)
           step == [x \in A \X (1 .. n) |-> Use(x[1], q[x[2]])]
           f == Turns(q, len, bad)
<1>0. n \in Nat /\ \A i \in 1 .. n : q[i] \in Buffers
  BY SMTT(20)
<1>1. base \in A
  BY SMTT(20) DEF Start, Accs
<1>2. step \in [A \X (1 .. n) -> A]
  <2> SUFFICES ASSUME NEW a \in A, NEW i \in 1 .. n PROVE Use(a, q[i]) \in A
    OBVIOUS
  <2> QED BY <1>0, UseCases
<1>3. PICK g \in [0 .. n -> A] : Solves(g, n, base, step)
  <2> HIDE DEF step, n, A, base
  <2> QED BY ONLY <1>0, <1>1, <1>2, RecursionExists, Zenon
<1>4. g = [i \in 0 .. n |-> IF i = 0 THEN base ELSE Use(g[i - 1], q[i])]
  <2>1. ASSUME NEW i \in 1 .. n
        PROVE  g[i] = Use(g[i - 1], q[i])
    <3>1. g[i - 1] \in A
      BY <1>0, SMTT(20)
    <3> HIDE DEF A
    <3>2. step[<<g[i - 1], i>>] = Use(g[i - 1], q[i])
      BY <3>1
    <3> QED BY <1>3, <3>2, Zenon DEF Solves
  <2> HIDE DEF base, A
  <2> QED BY <1>3, <2>1, SMT DEF Solves
<1>5. f = [i \in 0 .. n |-> IF i = 0 THEN base ELSE Use(f[i - 1], q[i])]
  BY <1>4, Zenon DEF Turns
<1> HIDE DEF f, base, A, n
<1>6. f[0] = base /\ \A i \in 1 .. n : f[i] = Use(f[i - 1], q[i])
  BY <1>0, <1>5, SMTT(20)
<1>7. \A i \in 0 .. n : f[i] \in A
  <2> DEFINE S == {i \in 0 .. n : f[i] \in A}
  <2>1. 0 \in S
    BY <1>0, <1>1, <1>6, SMTT(20)
  <2>2. ASSUME NEW i \in 1 .. n, i - 1 \in S PROVE i \in S
    <3>1. f[i - 1] \in A /\ f[i] = Use(f[i - 1], q[i])
      BY <1>6, <2>2
    <3> QED BY <1>0, <3>1, UseCases, SMTT(20) DEF A
  <2> HIDE DEF S
  <2>3. \A i \in 0 .. n : i \in S
    BY <1>0, <2>1, <2>2, InductionTo, Zenon
  <2> QED BY <2>3 DEF S
<1>8. f \in [0 .. n -> A]
  BY <1>5, <1>7
<1> QED BY <1>6, <1>8 DEF f, n, A, base

\* After the turns up to i: what was moved came out of the buffers; if more is
\* to be moved, a buffer could not be mapped or all are used up so far.
TurnInv(q, len, i, a) ==
    /\ a.left <= len
    /\ a.stuck => a.left > 0
    /\ a.left > 0 /\ ~a.stuck => a.rest = <<>>
    /\ Room(a.rest) + len = RoomTo(q)[i] + a.left

\* dma_read and dma_write of no more than there is room for: they fall short if
\* and only if a buffer could not be mapped, and take what they move out of the
\* room of the endpoint.
LEMMA TransferOK ==
    \A ep \in Endpoints, len \in Nat : \A bad :
        buffers[ep] \in Seq(Buffers) /\ len <= Room(buffers[ep]) =>
            /\ Transfer(ep, len, bad) \in Accs(bad)
            /\ Transfer(ep, len, bad).left > 0 <=> Transfer(ep, len, bad).stuck
            /\ Transfer(ep, len, bad).left <= len
            /\ Room(Transfer(ep, len, bad).rest)
                   = Room(buffers[ep]) - len + Transfer(ep, len, bad).left
<1>RoomEmpty. Room(<<>>) = 0
  <2>1. <<>> \in Seq(Buffers) /\ Len(<<>>) = 0
    BY SMT
  <2>2. RoomTo(<<>>)[0] = 0
    BY <2>1, RoomToRec, Zenon
  <2> QED BY <2>1, <2>2 DEF Room
\* A buffer at the end adds its room.
<1>RoomAppend.
      ASSUME NEW q \in Seq(Buffers), NEW b \in Buffers
      PROVE  Room(Append(q, b)) = Room(q) + b.size - b.completed
  <2> USE <1>RoomAppend
  <2> DEFINE n == Len(q)
             p == Append(q, b)
             S == {i \in 0 .. n : RoomTo(p)[i] = RoomTo(q)[i]}
  <2>1. /\ p \in Seq(Buffers) /\ Len(p) = n + 1 /\ p[n + 1] = b
        /\ \A i \in 1 .. n : p[i] = q[i]
    BY SMT
  <2>2. n \in Nat /\ n + 1 \in 1 .. n + 1 /\ \A i \in 1 .. n : i \in 1 .. n + 1
    BY SMTT(20)
  <2> HIDE DEF p, n
  <2>3. 0 \in S
    <3>1. RoomTo(p)[0] = 0 /\ RoomTo(q)[0] = 0
      BY <2>1, RoomToRec
    <3> QED BY <2>2, <3>1, SMTT(20)
  <2>4. ASSUME NEW i \in 1 .. n, i - 1 \in S PROVE i \in S
    <3>1. RoomTo(p)[i] = RoomTo(p)[i - 1] + p[i].size - p[i].completed
      BY <2>1, <2>2, RoomToRec
    <3>2. RoomTo(q)[i] = RoomTo(q)[i - 1] + q[i].size - q[i].completed
      BY RoomToRec DEF n
    <3> QED BY <2>1, <2>2, <2>4, <3>1, <3>2, SMTT(20)
  <2>5. n \in S
    <3> HIDE DEF S
    <3>1. \A i \in 0 .. n : i \in S
      BY <2>2, <2>3, <2>4, InductionTo
    <3> QED BY <2>2, <3>1, SMTT(20)
  <2>6. RoomTo(p)[Len(p)] = RoomTo(p)[Len(p) - 1] + p[Len(p)].size - p[Len(p)].completed
    <3>1. Len(p) \in 1 .. Len(p)
      BY <2>1, <2>2
    <3> QED BY <2>1, <3>1, RoomToRec
  <2>7. Len(p) - 1 = n /\ p[Len(p)] = b
    BY <2>1, <2>2, SMTT(20)
  <2>8. RoomTo(p)[Len(p)] = RoomTo(q)[n] + b.size - b.completed
    BY <2>5, <2>6, <2>7
  <2> QED BY <2>8 DEF Room, n, p
<1>TurnKeepsInv.
      ASSUME NEW q \in Seq(Buffers), NEW len \in Nat, NEW bad, NEW i \in 1 .. Len(q),
             NEW a \in Accs(bad), TurnInv(q, len, i - 1, a)
      PROVE  TurnInv(q, len, i, Use(a, q[i]))
  <2> USE <1>TurnKeepsInv
  <2> DEFINE b == q[i]
             u == Use(a, b)
  <2> SUFFICES TurnInv(q, len, i, u)
    OBVIOUS
  <2>1. b \in Buffers /\ b.size \in Nat /\ b.completed \in Nat /\ b.completed <= b.size
    BY SMTT(20) DEF Buffers
  <2>2. u \in Accs(bad)
    BY <2>1, UseCases
  <2>4. RoomTo(q)[i] \in Nat /\ RoomTo(q)[i - 1] \in Nat
    <3>1. i \in 0 .. Len(q) /\ i - 1 \in 0 .. Len(q)
      BY SMTT(20)
    <3>2. \A j \in 0 .. Len(q) : RoomTo(q)[j] \in Nat
      BY RoomToRec
    <3> QED BY <3>1, <3>2
  <2> DEFINE room == b.size - b.completed
  <2>3. RoomTo(q)[i] = RoomTo(q)[i - 1] + room
    <3>1. RoomTo(q)[i] = RoomTo(q)[i - 1] + b.size - b.completed
      BY RoomToRec
    <3> QED BY <2>1, <3>1, <2>4
  <2>5. a.rest \in Seq(Buffers) /\ a.left \in Nat /\ u.left \in Nat
    BY <2>2 DEF Accs
  <2>6. Room(a.rest) \in Nat /\ Room(u.rest) \in Nat
    BY <2>2, <2>5, RoomType DEF Accs
  <2>7. \A c \in Buffers : Room(Append(a.rest, c)) = Room(a.rest) + c.size - c.completed
    BY <2>5, <1>RoomAppend
  <2>8. \/ Skips(a, b, u) \/ Sticks(a, b, u) \/ UsesUp(a, b, u) \/ UsesPart(a, b, u)
    BY <2>1, UseCases
  <2>0. Room(a.rest) + len = RoomTo(q)[i - 1] + a.left /\ len \in Nat /\ a.left <= len
    BY DEF TurnInv
  <2> HIDE DEF room
  <2>12. room \in Nat
    BY <2>1, SMTT(20) DEF room
  <2>13. /\ (Room(a.rest) + room) + len = (RoomTo(q)[i - 1] + room) + a.left
         /\ (Room(a.rest) + room - a.left) + len = (RoomTo(q)[i - 1] + room) + 0
    <3> DEFINE x == Room(a.rest)
               y == RoomTo(q)[i - 1]
               l == a.left
    <3>1. x + len = y + l
      BY <2>0
    <3>2. x \in Nat /\ y \in Nat /\ l \in Nat /\ len \in Nat
      BY <2>0, <2>4, <2>5, <2>6
    <3> HIDE DEF x, y, l
    <3>3. (x + room) + len = (y + room) + l /\ (x + room - l) + len = (y + room) + 0
      BY ONLY <2>12, <3>1, <3>2, SMTT(20)
    <3> QED BY <3>3 DEF x, y, l
  <2>9. CASE Skips(a, b, u) \/ Sticks(a, b, u)
    <3>0. Room(u.rest) = Room(a.rest) + b.size - b.completed
      BY <2>1, <2>7, <2>9, Zenon DEF Skips, Sticks
    <3>1. Room(u.rest) = Room(a.rest) + room
      BY <2>1, <2>6, <3>0 DEF room
    <3> HIDE DEF b, u
    <3>2. u.left = a.left
      BY <2>9 DEF Skips, Sticks
    <3>3. Room(u.rest) + len = RoomTo(q)[i] + u.left
      BY ONLY <2>3, <2>13, <3>1, <3>2, Zenon
    <3> QED BY <2>0, <2>5, <2>9, <3>3, SMTT(20) DEF Skips, Sticks, TurnInv
  <2>10. CASE UsesUp(a, b, u)
    <3> HIDE DEF b, u
    <3>1. Room(u.rest) = Room(a.rest) /\ u.left = a.left - room
      BY <2>10 DEF UsesUp, room
    <3>2. Room(u.rest) + len = RoomTo(q)[i] + u.left
      <4> DEFINE x == Room(a.rest)
                 y == RoomTo(q)[i - 1]
                 l == a.left
      <4>1. x + len = y + l
        BY <2>0
      <4>2. x \in Nat /\ y \in Nat /\ l \in Nat /\ len \in Nat
        BY <2>0, <2>4, <2>5, <2>6
      <4> HIDE DEF x, y, l
      <4>3. x + len = (y + room) + (l - room)
        BY ONLY <2>12, <4>1, <4>2, SMTT(20)
      <4>4. x + len = RoomTo(q)[i] + u.left
        BY <2>3, <3>1, <4>3 DEF y, l
      <4> QED BY <3>1, <4>4 DEF x
    <3>3. u.left <= len
      BY ONLY <2>0, <2>5, <2>12, <3>1, SMTT(20)
    <3> QED BY <2>5, <2>10, <3>2, <3>3 DEF UsesUp, TurnInv
  <2>11. CASE UsesPart(a, b, u)
    <3> HIDE DEF b, u
    <3>1. PICK c \in Buffers : /\ u.rest = Append(a.rest, c)
                               /\ c.size - c.completed = b.size - b.completed - a.left
      BY <2>11 DEF UsesPart
    <3>2. c.size \in Nat /\ c.completed \in Nat
      BY DEF Buffers
    <3>3. Room(u.rest) = Room(a.rest) + room - a.left
      <4>1. Room(u.rest) = Room(a.rest) + c.size - c.completed
        BY <2>7, <3>1
      <4>2. c.size - c.completed = room - a.left
        BY <3>1 DEF room
      <4> QED BY ONLY <2>5, <2>6, <2>12, <3>2, <4>1, <4>2, SMTT(20)
    <3>4. Room(u.rest) + len = RoomTo(q)[i] + u.left
      <4>1. u.left = 0
        BY <2>11 DEF UsesPart
      <4> QED BY ONLY <2>3, <2>13, <3>3, <4>1, Zenon
    <3> QED BY <2>5, <2>11, <3>4, SMTT(20) DEF UsesPart, TurnInv
  <2> QED BY <2>8, <2>9, <2>10, <2>11
<1>TransferOK.
      ASSUME NEW ep \in Endpoints, buffers[ep] \in Seq(Buffers), NEW len \in Nat, NEW bad,
             len <= Room(buffers[ep])
      PROVE  /\ Transfer(ep, len, bad) \in Accs(bad)
             /\ Transfer(ep, len, bad).left > 0 <=> Transfer(ep, len, bad).stuck
             /\ Transfer(ep, len, bad).left <= len
             /\ Room(Transfer(ep, len, bad).rest)
                    = Room(buffers[ep]) - len + Transfer(ep, len, bad).left
  <2> USE <1>TransferOK
  <2> DEFINE q == buffers[ep]
             n == Len(q)
             f == Turns(q, len, bad)
             S == {i \in 0 .. n : TurnInv(q, len, i, f[i])}
  <2>0. n \in Nat /\ q \in Seq(Buffers)
    BY SMT
  <2>1. /\ f \in [0 .. n -> Accs(bad)] /\ f[0] = Start(len, bad)
        /\ \A i \in 1 .. n : f[i] = Use(f[i - 1], q[i])
    BY TurnsRec, SMT
  <2>2. 0 \in S
    BY <2>0, <2>1, <1>RoomEmpty, RoomToRec, SMTT(20) DEF TurnInv, Start
  <2>3. ASSUME NEW i \in 1 .. n, i - 1 \in S PROVE i \in S
    <3>1. /\ i - 1 \in 0 .. n /\ i \in 0 .. n
          /\ TurnInv(q, len, i - 1, f[i - 1]) /\ f[i - 1] \in Accs(bad)
          /\ f[i] = Use(f[i - 1], q[i])
      BY <2>0, <2>1, <2>3, SMT
    <3> HIDE DEF f
    <3>2. TurnInv(q, len, i, Use(f[i - 1], q[i]))
      BY <2>0, <3>1, <1>TurnKeepsInv
    <3> QED BY <3>1, <3>2
  <2>4. TurnInv(q, len, n, f[n]) /\ f[n] \in Accs(bad)
    <3> HIDE DEF S, n, f, q
    <3>1. \A i \in 0 .. n : i \in S
      BY <2>0, <2>2, <2>3, InductionTo, Zenon
    <3> QED BY <2>0, <2>1, <3>1, SMTT(20) DEF S
  <2>5. Transfer(ep, len, bad) = f[n]
    BY TransferIsTurns
  <2>6. Room(q) = RoomTo(q)[n] /\ Room(q) \in Nat
    BY <2>0, RoomType DEF Room
  <2> HIDE DEF f, n, q
  <2>7. f[n].left \in Nat /\ f[n].stuck \in BOOLEAN /\ Room(f[n].rest) \in Nat
    BY <2>4, RoomType DEF Accs
  <2>8. len <= Room(q)
    BY DEF q
  <2>9. /\ Room(f[n].rest) + len = Room(q) + f[n].left
        /\ f[n].left <= len
        /\ f[n].stuck => f[n].left > 0
        /\ f[n].left > 0 /\ ~f[n].stuck => Room(f[n].rest) = 0
    BY <2>4, <2>6, <1>RoomEmpty DEF TurnInv
  <2>10. \A x, l, r \in Nat :
             x + len = r + l /\ len <= r => x = r - len + l /\ (x = 0 => l = 0)
    BY SMTT(20)
  <2> QED BY <2>4, <2>5, <2>6, <2>7, <2>8, <2>9, <2>10, SMTT(20) DEF q
<1> QED BY <1>TransferOK, SMTT(20)

\* What is needed of a run that began with all it needs and met no buffer that
\* it could not map: as it goes on, there is still enough of everything.
SoundInv ==
    sound /\ ~failed =>
        LET T == Room(buffers["tx"])
            R == Room(buffers["rx"])
        IN  /\ pc = "send" =>
                 /\ cfg.mode = "DMA"
                 /\ T + txfifo >= txcnt /\ R >= rxcnt + rxfifo
                 /\ \/ rxcnt <= txcnt
                    \/ cfg.agd /\ txcnt = 0 /\ rxcnt + rxfifo <= Depth
                 /\ txcnt > 0 => txfifo > 0
            /\ pc # "full"
            /\ pc = "generate" =>
                 /\ cfg.mode = "DMA"
                 /\ txcnt = 0 /\ R >= rxcnt + rxfifo
                 /\ rxcnt = 0 \/ (cfg.agd /\ rxcnt + rxfifo <= Depth)
            /\ pc = "done" => txcnt = 0 /\ rxcnt = 0 /\ rxfifo = 0

-----------------------------------------------------------------------------
(* What the FIFOs take from the SIO and give to it.                        *)

\* m is what became of moving n words through the buffers q.
Moved(m, q, n) ==
    /\ m.rest \in Seq(Buffers) /\ m.left \in Nat /\ m.stuck \in BOOLEAN
    /\ m.left > 0 <=> m.stuck
    /\ Room(m.rest) = Room(q) - n + m.left

LEMMA TransferMoved ==
    ASSUME TypeOK, NEW ep \in Endpoints, NEW len \in Nat, NEW bad, len <= Room(buffers[ep])
    PROVE  Moved(Transfer(ep, len, bad), buffers[ep], len)
<1>1. buffers[ep] \in Seq(Buffers)
  BY DEF TypeOK
<1> DEFINE m == Transfer(ep, len, bad)
<1>2. /\ m \in Accs(bad)
      /\ m.left > 0 <=> m.stuck
      /\ Room(m.rest) = Room(buffers[ep]) - len + m.left
  BY <1>1, TransferOK
<1> HIDE DEF m
<1>3. m.rest \in Seq(Buffers) /\ m.left \in Nat /\ m.stuck \in BOOLEAN
  BY <1>2 DEF Accs
<1>4. Moved(m, buffers[ep], len)
  BY ONLY <1>2, <1>3, SMTT(20) DEF Moved
<1> QED BY <1>4 DEF m

LEMMA NothingMoved ==
    ASSUME TypeOK, NEW ep \in Endpoints
    PROVE  /\ Moved(NoTransfer(ep), buffers[ep], 0)
           /\ NoTransfer(ep).left = 0
<1>1. buffers[ep] \in Seq(Buffers)
  BY DEF TypeOK
<1>2. Room(buffers[ep]) \in Nat
  BY <1>1, RoomType
<1>3. Moved(Transfer(ep, 0, NoTag), buffers[ep], 0)
  BY <1>2, TransferMoved, SMTT(20)
<1>4. Transfer(ep, 0, NoTag).left <= 0
  BY <1>1, <1>2, TransferOK, SMTT(20)
<1>5. Transfer(ep, 0, NoTag).left \in Nat
  BY <1>3 DEF Moved
<1>6. Transfer(ep, 0, NoTag).left = 0
  <2> DEFINE l == Transfer(ep, 0, NoTag).left
  <2> HIDE DEF l
  <2>1. l \in Nat /\ l <= 0
    BY <1>4, <1>5 DEF l
  <2>2. l = 0
    BY <2>1, SMTT(20)
  <2> QED BY <2>2 DEF l
<1> QED BY <1>3, <1>6 DEF NoTransfer

\* r is what became of refilling the transmit FIFO, with n words in it.
Refilled(r, n, cnt) ==
    /\ r.n \in n .. Depth
    /\ Moved(r.move, buffers["tx"], r.n - n)
    /\ n > 0 => r.n = n
    /\ cfg.mode = "DMA" /\ cnt > 0 /\ Room(buffers["tx"]) > 0 => r.n > 0

\* f is what became of flushing the receive FIFO, with n words in it, to which
\* it was flushed if there is need to.
Flushed(f, n, need) ==
    /\ f.n \in 0 .. n
    /\ Moved(f.move, buffers["rx"], n - f.n)
    /\ need /\ cfg.mode = "DMA" /\ Room(buffers["rx"]) >= n => f.n = 0
    /\ ~need => f.n = n

LEMMA RefillOK ==
    ASSUME TypeOK, NEW n \in 0 .. Depth, NEW cnt \in Nat, NEW bad
    PROVE  Refilled(Refill(n, cnt, bad), n, cnt)
<1> DEFINE T == Room(buffers["tx"])
           d == Min({cnt, Depth, T})
           r == Refill(n, cnt, bad)
<1>1. T \in Nat /\ Depth \in Nat /\ Depth > 0 /\ "tx" \in Endpoints
  BY RoomType, SPIConstants, SMTT(20) DEF TypeOK, Endpoints
<1>2. d \in Nat /\ d <= cnt /\ d <= Depth /\ d <= T /\ (cnt > 0 /\ T > 0 => d > 0)
  <2> HIDE DEF T
  <2>1. cnt \in Int /\ Depth \in Int /\ T \in Int
    BY <1>1, SMT
  <2>2. d \in {cnt, Depth, T} /\ d <= cnt /\ d <= Depth /\ d <= T
    BY <2>1, MinOfThree, Zenon
  <2> HIDE DEF d
  <2> QED BY <1>1, <2>2
<1>3. apple_sio_dma_remaining("tx") = T
  BY <1>1, RemainingIsRoom DEF TypeOK
<1>4. CASE n > 0 \/ cfg.mode # "DMA" \/ d = 0
  <2>1. r = [n |-> n, move |-> NoTransfer("tx")]
    BY <1>3, <1>4 DEF Refill
  <2>2. r.n = n /\ r.move = NoTransfer("tx")
    BY <2>1, SMTT(20)
  <2> HIDE DEF r, d, T
  <2>3. Moved(r.move, buffers["tx"], r.n - n)
    <3>1. r.n - n = 0
      BY <2>2, SMTT(20)
    <3> QED BY ONLY TypeOK, <1>1, <2>2, <3>1, NothingMoved, SMTT(20)
  <2>4. n > 0 \/ ~(cfg.mode = "DMA" /\ cnt > 0 /\ T > 0)
    BY <1>2, <1>4, SMTT(20)
  <2>5. Refilled(r, n, cnt)
    BY <1>1, <2>2, <2>3, <2>4, SMTT(20) DEF Refilled, T
  <2> QED BY <2>5 DEF r
<1>5. CASE ~(n > 0 \/ cfg.mode # "DMA" \/ d = 0)
  <2>1. r = [n |-> d, move |-> Transfer("tx", d, bad)]
    BY <1>3, <1>5 DEF Refill
  <2>2. r.n = d /\ r.move = Transfer("tx", d, bad)
    BY <2>1, SMTT(20)
  <2> HIDE DEF r, d
  <2>3. Moved(r.move, buffers["tx"], r.n - n)
    <3>1. Moved(Transfer("tx", d, bad), buffers["tx"], d)
      BY <1>1, <1>2, TransferMoved
    <3>2. r.n - n = d
      BY <1>2, <1>5, <2>2, SMTT(20)
    <3> QED BY ONLY <2>2, <3>1, <3>2, SMTT(20)
  <2>4. Refilled(r, n, cnt)
    BY <1>1, <1>2, <1>5, <2>2, <2>3, SMTT(20) DEF Refilled
  <2> QED BY <2>4 DEF r
<1> QED BY <1>4, <1>5

LEMMA FlushOK ==
    ASSUME TypeOK, NEW n \in 0 .. Depth, NEW bad
    PROVE  Flushed(Flush(n, bad), n, TRUE)
<1> DEFINE R == Room(buffers["rx"])
           d == Min({n, R})
           f == Flush(n, bad)
<1>1. R \in Nat /\ Depth \in Nat /\ n \in Nat /\ "rx" \in Endpoints
  BY RoomType, SPIConstants, SMTT(20) DEF TypeOK, Endpoints
<1>2. d \in Nat /\ d <= n /\ d <= R /\ (R >= n => d = n)
  <2> HIDE DEF R
  <2> QED BY <1>1, MinOfTwo, SMTT(20)
<1>3. apple_sio_dma_remaining("rx") = R
  BY <1>1, RemainingIsRoom DEF TypeOK
<1>4. CASE ~(cfg.mode = "DMA" /\ d > 0)
  <2>1. f = [n |-> n, move |-> NoTransfer("rx")]
    BY <1>3, <1>4, Zenon DEF Flush
  <2>2. f.n = n /\ f.move = NoTransfer("rx")
    BY <2>1, SMTT(20)
  <2> HIDE DEF f, d, R
  <2>3. Moved(f.move, buffers["rx"], n - f.n)
    <3>1. n - f.n = 0
      BY <2>2, SMTT(20)
    <3> QED BY ONLY TypeOK, <1>1, <2>2, <3>1, NothingMoved, SMTT(20)
  <2>4. cfg.mode = "DMA" /\ R >= n => n = 0
    BY <1>1, <1>2, <1>4, SMTT(20)
  <2>5. Flushed(f, n, TRUE)
    BY <1>1, <2>2, <2>3, <2>4, SMTT(20) DEF Flushed, R
  <2> QED BY <2>5, Zenon DEF f
<1>5. CASE cfg.mode = "DMA" /\ d > 0
  <2>1. f = [n |-> n - d, move |-> Transfer("rx", d, bad)]
    BY <1>3, <1>5 DEF Flush
  <2>2. f.n = n - d /\ f.move = Transfer("rx", d, bad)
    BY <2>1, SMTT(20)
  <2> HIDE DEF f, d
  <2>3. Moved(f.move, buffers["rx"], n - f.n)
    <3>1. Moved(Transfer("rx", d, bad), buffers["rx"], d)
      BY <1>1, <1>2, TransferMoved
    <3>2. n - f.n = d
      BY <1>1, <1>2, <2>2, SMTT(20)
    <3> QED BY ONLY <2>2, <3>1, <3>2, SMTT(20)
  <2>4. Flushed(f, n, TRUE)
    BY <1>1, <1>2, <2>2, <2>3, SMTT(20) DEF Flushed
  <2> QED BY <2>4, Zenon DEF f
<1> QED BY <1>4, <1>5, Zenon

LEMMA FlushIfFullOK ==
    ASSUME TypeOK, NEW n \in 0 .. Depth, NEW bad
    PROVE  Flushed(FlushIfFull(n, bad), n, n = Depth)
<1>1. CASE n = Depth
  BY <1>1, FlushOK DEF FlushIfFull, Flushed
<1>2. CASE n # Depth
  <2> DEFINE f == FlushIfFull(n, bad)
  <2>1. f = [n |-> n, move |-> NoTransfer("rx")]
    BY <1>2 DEF FlushIfFull
  <2>2. f.n = n /\ f.move = NoTransfer("rx") /\ n - n = 0 /\ n \in 0 .. n
    BY <2>1, SMTT(20)
  <2> HIDE DEF f
  <2>3. Moved(f.move, buffers["rx"], n - f.n)
    BY <2>2, NothingMoved DEF Endpoints
  <2>4. Flushed(f, n, n = Depth)
    BY <1>2, <2>2, <2>3 DEF Flushed
  <2> QED BY <2>4 DEF f
<1> QED BY <1>1, <1>2

-----------------------------------------------------------------------------
(* The steps of a run.                                                     *)

LEMMA TransferredOK ==
    ASSUME NEW r, NEW w, NEW n, NEW k, failed \in BOOLEAN, short \in BOOLEAN,
           Moved(r, buffers["tx"], n), Moved(w, buffers["rx"], k), Transferred(r, w)
    PROVE  /\ buffers' \in [Endpoints -> Seq(Buffers)]
           /\ buffers'["tx"] = r.rest /\ buffers'["rx"] = w.rest
           /\ failed' \in BOOLEAN /\ short' \in BOOLEAN
           /\ ~failed' => ~failed /\ ~r.stuck /\ ~w.stuck /\ r.left = 0 /\ w.left = 0
           /\ (short => failed) => (short' => failed')
<1>1. buffers' = [tx |-> r.rest, rx |-> w.rest]
  BY DEF Transferred
<1>2. r.rest \in Seq(Buffers) /\ w.rest \in Seq(Buffers)
  BY DEF Moved
<1>3. /\ buffers' \in [Endpoints -> Seq(Buffers)]
      /\ buffers'["tx"] = r.rest /\ buffers'["rx"] = w.rest
  BY <1>1, <1>2, SMTT(20) DEF Endpoints
<1>4. /\ r.left \in Nat /\ w.left \in Nat
      /\ r.left > 0 <=> r.stuck
      /\ w.left > 0 <=> w.stuck
  BY DEF Moved
<1>5. /\ failed' = (failed \/ r.stuck \/ w.stuck)
      /\ short' = (short \/ r.left > 0 \/ w.left > 0)
  BY DEF Transferred
<1>6. failed' \in BOOLEAN /\ short' \in BOOLEAN
  BY <1>5
<1>7. ~failed' => ~failed /\ ~r.stuck /\ ~w.stuck /\ r.left = 0 /\ w.left = 0
  <2>1. ~failed' => ~failed /\ ~r.stuck /\ ~w.stuck
    BY <1>5, Zenon
  <2>2. (~r.stuck => r.left = 0) /\ (~w.stuck => w.left = 0)
    BY ONLY <1>4, SMTT(20)
  <2> QED BY <2>1, <2>2
<1>8. (short => failed) => (short' => failed')
  BY <1>4, <1>5
<1> QED BY <1>3, <1>6, <1>7, <1>8

\* What the steps of a run do, as far as the amounts matter.
LEMMA BeginRunDoes ==
    ASSUME TypeOK, BeginRun
    PROVE  \E r : /\ Refilled(r, txfifo, txcnt) /\ txfifo' = r.n
                  /\ Transferred(r.move, NoTransfer("rx"))
<1>1. PICK bad : /\ txfifo' = Refill(txfifo, txcnt, bad).n
                 /\ Transferred(Refill(txfifo, txcnt, bad).move, NoTransfer("rx"))
  BY DEF BeginRun
<1>2. Refilled(Refill(txfifo, txcnt, bad), txfifo, txcnt)
  BY RefillOK DEF TypeOK
<1> QED BY <1>1, <1>2

SentWord(r, f) ==
    /\ Refilled(r, txfifo - 1, txcnt - 1)
    /\ Flushed(f, rxfifo, rxcnt > 0 /\ rxfifo = Depth)
    /\ txfifo' = r.n
    /\ rxfifo' = IF rxcnt > 0 /\ f.n # Depth THEN f.n + 1 ELSE f.n
    /\ rxcnt' = IF rxcnt > 0 /\ f.n # Depth THEN rxcnt - 1 ELSE rxcnt
    /\ pc' = IF rxcnt > 0 /\ f.n = Depth THEN "full" ELSE "send"
    /\ Transferred(r.move, f.move)

LEMMA SendWordDoes ==
    ASSUME TypeOK, SendWord
    PROVE  \E r, f : SentWord(r, f)
<1> DEFINE R(bad) == Refill(txfifo - 1, txcnt - 1, bad)
           F(bad) == IF rxcnt > 0 THEN FlushIfFull(rxfifo, bad)
                     ELSE [n |-> rxfifo, move |-> NoTransfer("rx")]
<1>0. txfifo - 1 \in 0 .. Depth /\ txcnt - 1 \in Nat /\ rxfifo \in 0 .. Depth
  BY SPIConstants, SMTT(20) DEF TypeOK, SendWord
<1>1. \A bad : Refilled(R(bad), txfifo - 1, txcnt - 1)
  BY <1>0, RefillOK
<1>2. \A bad : Flushed(F(bad), rxfifo, rxcnt > 0 /\ rxfifo = Depth)
  <2> SUFFICES ASSUME NEW bad
               PROVE  Flushed(F(bad), rxfifo, rxcnt > 0 /\ rxfifo = Depth)
    OBVIOUS
  <2>1. CASE rxcnt > 0
    BY <1>0, <2>1, FlushIfFullOK DEF Flushed
  <2>2. CASE ~(rxcnt > 0)
    <3> DEFINE f == F(bad)
    <3>1. f = [n |-> rxfifo, move |-> NoTransfer("rx")]
      BY <2>2
    <3>2. f.n = rxfifo /\ f.move = NoTransfer("rx") /\ rxfifo - rxfifo = 0
      BY <1>0, <3>1, SMTT(20)
    <3> HIDE DEF f
    <3>3. Moved(f.move, buffers["rx"], rxfifo - f.n)
      BY <3>2, NothingMoved DEF Endpoints
    <3>4. rxfifo \in 0 .. rxfifo
      BY <1>0, SMTT(20)
    <3>5. Flushed(f, rxfifo, rxcnt > 0 /\ rxfifo = Depth)
      BY <2>2, <3>2, <3>3, <3>4 DEF Flushed
    <3> QED BY <3>5 DEF f
  <2> QED BY <2>1, <2>2
<1>3. PICK bad, badrx :
        /\ txfifo' = R(bad).n
        /\ rxfifo' = IF rxcnt > 0 /\ ~(rxcnt > 0 /\ F(badrx).n = Depth)
                     THEN F(badrx).n + 1 ELSE F(badrx).n
        /\ rxcnt' = IF rxcnt > 0 /\ ~(rxcnt > 0 /\ F(badrx).n = Depth) THEN rxcnt - 1 ELSE rxcnt
        /\ Transferred(R(bad).move, F(badrx).move)
        /\ pc' = IF rxcnt > 0 /\ F(badrx).n = Depth THEN "full" ELSE "send"
  BY DEF SendWord
<1>4. Refilled(R(bad), txfifo - 1, txcnt - 1) /\ Flushed(F(badrx), rxfifo, rxcnt > 0 /\ rxfifo = Depth)
  BY <1>1, <1>2
<1> HIDE DEF R, F
<1>5. SentWord(R(bad), F(badrx))
  BY <1>3, <1>4 DEF SentWord
<1> QED BY <1>5

LEMMA EndSendingDoes ==
    ASSUME TypeOK, EndSending
    PROVE  \E f : /\ Flushed(f, rxfifo, rxfifo = Depth) /\ rxfifo' = f.n
                  /\ Transferred(NoTransfer("tx"), f.move)
<1>1. PICK bad : /\ rxfifo' = FlushIfFull(rxfifo, bad).n
                 /\ Transferred(NoTransfer("tx"), FlushIfFull(rxfifo, bad).move)
  BY DEF EndSending
<1>2. Flushed(FlushIfFull(rxfifo, bad), rxfifo, rxfifo = Depth)
  BY FlushIfFullOK DEF TypeOK
<1> QED BY <1>1, <1>2

LEMMA EndRunDoes ==
    ASSUME TypeOK, EndRun
    PROVE  \E f : /\ Flushed(f, rxfifo, TRUE) /\ rxfifo' = f.n
                  /\ Transferred(NoTransfer("tx"), f.move)
<1>1. PICK bad : /\ rxfifo' = Flush(rxfifo, bad).n
                 /\ Transferred(NoTransfer("tx"), Flush(rxfifo, bad).move)
  BY DEF EndRun
<1>2. Flushed(Flush(rxfifo, bad), rxfifo, TRUE)
  BY FlushOK, Zenon DEF TypeOK
<1> QED BY <1>1, <1>2, Zenon

-----------------------------------------------------------------------------
(* The theorems.                                                           *)

LEMMA SIOStepTyped ==
    ASSUME TypeOK, SIOStep
    PROVE  /\ buffers' \in [Endpoints -> Seq(Buffers)] /\ toSIO' \in Seq(Messages)
           /\ UNCHANGED spiVars /\ UNCHANGED history
<1> USE DEF TypeOK
<1>0. UNCHANGED spiVars
  BY DEF SIOStep
<1>1. CASE apple_sio_handle_endpoint
  <2> DEFINE m == Head(toSIO)
  <2>1. /\ toSIO # <<>> /\ toSIO' = Tail(toSIO)
        /\ HandleMap(m) \/ HandleStop(m)
        /\ UNCHANGED history
    BY <1>1 DEF apple_sio_handle_endpoint
  <2>2. m \in Messages /\ toSIO' \in Seq(Messages)
    BY <2>1, SMTT(20)
  <2> HIDE DEF m
  <2>3. m.ep \in Endpoints /\ (m.op = "map" => m.tag \in Tags)
    BY <2>2 DEF Messages
  <2>4. ASSUME HandleMap(m) PROVE buffers' \in [Endpoints -> Seq(Buffers)]
    <3>1. CASE UNCHANGED buffers
      BY <3>1
    <3>2. ASSUME NEW size \in Sizes[m.ep],
                 buffers' = [buffers EXCEPT ![m.ep] =
                    Append(@, [tag |-> m.tag, size |-> size, completed |-> 0, mapped |-> FALSE])]
          PROVE  buffers' \in [Endpoints -> Seq(Buffers)]
      <4> DEFINE b == [tag |-> m.tag, size |-> size, completed |-> 0, mapped |-> FALSE]
      <4>1. size \in Nat /\ m.tag \in Tags
        BY <2>3, <2>4, SIOConstants DEF HandleMap
      <4>2. b \in Buffers
        BY <4>1, SMTT(20) DEF Buffers
      <4> HIDE DEF b
      <4>3. Append(buffers[m.ep], b) \in Seq(Buffers)
        BY <2>3, <4>2, SMTT(20)
      <4>4. buffers' = [buffers EXCEPT ![m.ep] = Append(buffers[m.ep], b)]
        BY <3>2 DEF b
      <4> QED BY <4>3, <4>4, Zenon
    <3> QED BY <2>4, <3>1, <3>2, Zenon DEF HandleMap
  <2>5. ASSUME HandleStop(m) PROVE buffers' \in [Endpoints -> Seq(Buffers)]
    <3>1. <<>> \in Seq(Buffers)
      BY SMT
    <3>2. buffers' = [buffers EXCEPT ![m.ep] = <<>>]
      BY <2>5 DEF HandleStop
    <3> QED BY <2>3, <3>1, <3>2
  <2> QED BY <1>0, <2>1, <2>2, <2>4, <2>5
<1>2. CASE DriverReceive
  BY <1>0, <1>2 DEF DriverReceive
<1>3. ASSUME NEW ep \in Endpoints, NEW tag \in Tags, DriverMap(ep, tag)
      PROVE  /\ buffers' \in [Endpoints -> Seq(Buffers)] /\ toSIO' \in Seq(Messages)
             /\ UNCHANGED history
  <2>1. Message("map", ep, tag) \in Messages
    BY DEF Message, Messages
  <2> QED BY <1>3, <2>1, SMTT(20) DEF DriverMap, Send
<1>4. ASSUME NEW ep \in Endpoints, DriverStop(ep)
      PROVE  /\ buffers' \in [Endpoints -> Seq(Buffers)] /\ toSIO' \in Seq(Messages)
             /\ UNCHANGED history
  <2>1. Message("stop", ep, NoTag) \in Messages
    BY DEF Message, Messages
  <2> QED BY <1>4, <2>1, SMTT(20) DEF DriverStop, Send
<1> QED BY <1>0, <1>1, <1>2, <1>3, <1>4 DEF SIOStep

LEMMA RegisterStepTyped ==
    ASSUME TypeOK, RegisterStep
    PROVE  /\ UNCHANGED sioVars /\ UNCHANGED sound
           /\ txcnt' \in Nat /\ rxcnt' \in Nat
           /\ txfifo' \in 0 .. Depth /\ rxfifo' \in 0 .. Depth
           /\ pc = "idle" /\ pc' \in {"idle", "start"}
<1> USE SPIConstants DEF TypeOK
<1>1. ASSUME NEW t \in BOOLEAN, NEW r \in BOOLEAN, NEW n \in BOOLEAN, WriteCtrl(t, r, n)
      PROVE  /\ UNCHANGED sioVars /\ UNCHANGED sound
             /\ txcnt' \in Nat /\ rxcnt' \in Nat
             /\ txfifo' \in 0 .. Depth /\ rxfifo' \in 0 .. Depth
             /\ pc = "idle" /\ pc' \in {"idle", "start"}
  BY <1>1, SMTT(20) DEF WriteCtrl, apple_spi_run
<1>2. ASSUME NEW c \in Configs, WriteCfg(c)
      PROVE  /\ UNCHANGED sioVars /\ UNCHANGED sound
             /\ txcnt' \in Nat /\ rxcnt' \in Nat
             /\ txfifo' \in 0 .. Depth /\ rxfifo' \in 0 .. Depth
             /\ pc = "idle" /\ pc' \in {"idle", "start"}
  BY <1>2 DEF WriteCfg, apple_spi_run
<1>3. ASSUME NEW tx \in BOOLEAN, NEW n \in Counts, WriteCount(tx, n)
      PROVE  /\ UNCHANGED sioVars /\ UNCHANGED sound
             /\ txcnt' \in Nat /\ rxcnt' \in Nat
             /\ txfifo' \in 0 .. Depth /\ rxfifo' \in 0 .. Depth
             /\ pc = "idle" /\ pc' \in {"idle", "start"}
  BY <1>3 DEF WriteCount, apple_spi_run
<1>4. CASE WriteTxData
  BY <1>4, SMTT(20) DEF WriteTxData, apple_spi_run
<1>5. CASE ReadRxData
  BY <1>5, SMTT(20) DEF ReadRxData, apple_spi_run
<1> QED BY <1>1, <1>2, <1>3, <1>4, <1>5, ZenonT(30) DEF RegisterStep

LEMMA InitTyped == Init => TypeOK
<1> SUFFICES ASSUME Init PROVE TypeOK
  OBVIOUS
<1>1. buffers \in [Endpoints -> Seq(Buffers)] /\ toSIO \in Seq(Messages)
  BY SMTT(20) DEF Init, SIOInit
<1>2. /\ txcnt \in Nat /\ rxcnt \in Nat
      /\ txfifo \in 0 .. Depth /\ rxfifo \in 0 .. Depth
      /\ pc \in Places
      /\ failed \in BOOLEAN /\ short \in BOOLEAN /\ sound \in BOOLEAN
  <2>1. /\ txcnt = 0 /\ rxcnt = 0 /\ txfifo = 0 /\ rxfifo = 0 /\ pc = "idle"
        /\ failed = FALSE /\ short = FALSE /\ sound = FALSE
    BY DEF Init, SIOInit
  <2>2. failed \in BOOLEAN /\ short \in BOOLEAN /\ sound \in BOOLEAN
    BY <2>1, Zenon
  <2>3. /\ txcnt \in Nat /\ rxcnt \in Nat
        /\ txfifo \in 0 .. Depth /\ rxfifo \in 0 .. Depth
    BY <2>1, SPIConstants, SMTT(20)
  <2> QED BY <2>1, <2>2, <2>3 DEF Places
<1> QED BY <1>1, <1>2 DEF TypeOK

LEMMA NextTyped == TypeOK /\ [Next]_vars => TypeOK'
<1> SUFFICES ASSUME TypeOK, [Next]_vars PROVE TypeOK'
  OBVIOUS
<1>0. failed \in BOOLEAN /\ short \in BOOLEAN /\ Depth \in Nat /\ Depth > 0
  BY SPIConstants, SMTT(20) DEF TypeOK
<1>1. CASE BeginRun
  <2>1. PICK r : /\ Refilled(r, txfifo, txcnt) /\ txfifo' = r.n
                 /\ Transferred(r.move, NoTransfer("rx"))
    BY <1>1, BeginRunDoes
  <2>2. Moved(r.move, buffers["tx"], r.n - txfifo) /\ txfifo' \in txfifo .. Depth
    BY <2>1 DEF Refilled
  <2>3. Moved(NoTransfer("rx"), buffers["rx"], 0)
    BY NothingMoved DEF Endpoints
  <2>4. /\ buffers' \in [Endpoints -> Seq(Buffers)]
        /\ failed' \in BOOLEAN /\ short' \in BOOLEAN
    BY ONLY <1>0, <2>1, <2>2, <2>3, TransferredOK, SMTT(20)
  <2>5. HasAllItNeeds \in BOOLEAN
    BY DEF HasAllItNeeds
  <2>6. txfifo' \in 0 .. Depth
    BY <1>0, <2>2, SMTT(20) DEF TypeOK
  <2> QED BY <1>1, <2>4, <2>5, <2>6 DEF TypeOK, BeginRun, Places
<1>2. CASE SendWord
  <2>1. PICK r, f : SentWord(r, f)
    BY <1>2, SendWordDoes
  <2>2. /\ Moved(r.move, buffers["tx"], r.n - (txfifo - 1))
        /\ Moved(f.move, buffers["rx"], rxfifo - f.n)
        /\ r.n \in txfifo - 1 .. Depth /\ f.n \in 0 .. rxfifo
    BY <2>1, ZenonT(30) DEF SentWord, Refilled, Flushed
  <2>3. /\ buffers' \in [Endpoints -> Seq(Buffers)]
        /\ failed' \in BOOLEAN /\ short' \in BOOLEAN
    <3>1. Transferred(r.move, f.move)
      BY <2>1 DEF SentWord
    <3> QED BY ONLY <1>0, <2>2, <3>1, TransferredOK, SMTT(20)
  <2>4. txcnt' \in Nat /\ rxcnt' \in Nat /\ txfifo' \in 0 .. Depth /\ rxfifo' \in 0 .. Depth
    <3>1. /\ txcnt \in Nat /\ rxcnt \in Nat /\ txcnt > 0 /\ txfifo > 0
          /\ txfifo \in 0 .. Depth /\ rxfifo \in 0 .. Depth /\ txcnt' = txcnt - 1
      BY <1>2 DEF SendWord, TypeOK
    <3>2. /\ txfifo' = r.n
          /\ rxfifo' = IF rxcnt > 0 /\ f.n # Depth THEN f.n + 1 ELSE f.n
          /\ rxcnt' = IF rxcnt > 0 /\ f.n # Depth THEN rxcnt - 1 ELSE rxcnt
      BY <2>1 DEF SentWord
    <3>3. r.n \in txfifo - 1 .. Depth /\ f.n \in 0 .. rxfifo
      BY <2>2
    <3> QED BY ONLY <1>0, <3>1, <3>2, <3>3, SMTT(20)
  <2>5. pc' \in Places
    BY <2>1 DEF SentWord, Places
  <2> QED BY <1>2, <2>3, <2>4, <2>5 DEF TypeOK, SendWord
<1>3. CASE EndSending
  <2>1. PICK f : /\ Flushed(f, rxfifo, rxfifo = Depth) /\ rxfifo' = f.n
                 /\ Transferred(NoTransfer("tx"), f.move)
    BY <1>3, EndSendingDoes
  <2>2. Moved(f.move, buffers["rx"], rxfifo - f.n) /\ rxfifo' \in 0 .. rxfifo
    BY <2>1 DEF Flushed
  <2>3. Moved(NoTransfer("tx"), buffers["tx"], 0)
    BY NothingMoved DEF Endpoints
  <2>4. /\ buffers' \in [Endpoints -> Seq(Buffers)]
        /\ failed' \in BOOLEAN /\ short' \in BOOLEAN
    BY ONLY <1>0, <2>1, <2>2, <2>3, TransferredOK, SMTT(20)
  <2>5. rxfifo' \in 0 .. Depth
    BY <1>0, <2>2, SMTT(20) DEF TypeOK
  <2> QED BY <1>3, <2>4, <2>5 DEF TypeOK, EndSending, Places
<1>4. CASE ReceiveWord
  BY <1>0, <1>4, SMTT(20) DEF TypeOK, ReceiveWord, sioVars
<1>5. CASE EndRun
  <2>1. PICK f : /\ Flushed(f, rxfifo, TRUE) /\ rxfifo' = f.n
                 /\ Transferred(NoTransfer("tx"), f.move)
    BY <1>5, EndRunDoes, ZenonT(30)
  <2>2. Moved(f.move, buffers["rx"], rxfifo - f.n) /\ rxfifo' \in 0 .. rxfifo
    BY <2>1 DEF Flushed
  <2>3. Moved(NoTransfer("tx"), buffers["tx"], 0)
    BY NothingMoved DEF Endpoints
  <2>4. /\ buffers' \in [Endpoints -> Seq(Buffers)]
        /\ failed' \in BOOLEAN /\ short' \in BOOLEAN
    BY ONLY <1>0, <2>1, <2>2, <2>3, TransferredOK, SMTT(20)
  <2>5. rxfifo' \in 0 .. Depth
    BY <1>0, <2>2, SMT DEF TypeOK
  <2> QED BY <1>5, <2>4, <2>5 DEF TypeOK, EndRun, Places
<1>6. CASE EndAccess
  BY <1>6, Zenon DEF TypeOK, EndAccess, Places
<1>7. CASE RegisterStep
  BY <1>7, RegisterStepTyped DEF TypeOK, sioVars, Places
<1>8. CASE SIOStep
  BY <1>8, SIOStepTyped DEF TypeOK, spiVars, history
<1>9. CASE Reset
  <2>1. buffers' = [ep \in Endpoints |-> <<>>] /\ toSIO' = <<>>
    BY <1>9 DEF Reset, apple_sio_reset_hold
  <2>2. buffers' \in [Endpoints -> Seq(Buffers)] /\ toSIO' \in Seq(Messages)
    BY <2>1, SMTT(20)
  <2> QED BY <1>0, <1>9, <2>2, SMTT(20) DEF TypeOK, Reset, apple_sio_reset_hold, history
<1>10. CASE UNCHANGED vars
  BY <1>10 DEF TypeOK, vars, sioVars, spiVars
<1> QED BY <1>1, <1>2, <1>3, <1>4, <1>5, <1>6, <1>7, <1>8, <1>9, <1>10, SMTT(20)
           DEF Next, RunStep

\* The FIFOs of the controller never hold more than REG_FIFO_DEPTH words, its
\* counts never fall below zero and no more of a DMA buffer is completed than
\* it holds, whatever the depth, the counts and the sizes (apple_spi_run,
\* apple_sio_dma_read, apple_sio_dma_write).
THEOREM TypeCorrect == Spec => []TypeOK
<1> QED BY InitTyped, NextTyped, PTL DEF Spec

\* Every step inside apple_spi_run uses up some of the counts or moves it on:
\* it comes to its end for every depth, counts and buffers (apple_spi_run).
THEOREM RunEnds == Spec => RunProgresses
<1>1. ASSUME TypeOK, [Next]_vars PROVE [pc # "idle" => Fuel' < Fuel]_vars
  <2> SUFFICES ASSUME Next, pc # "idle" PROVE Fuel' < Fuel
    BY <1>1
  <2> USE <1>1
  <2>0. txcnt \in Nat /\ rxcnt \in Nat
    BY DEF TypeOK
  <2>1. CASE BeginRun
    BY <2>0, <2>1, SMTT(20) DEF BeginRun, Fuel
  <2>2. CASE SendWord
    <3>1. PICK r, f : SentWord(r, f)
      BY <2>2, SendWordDoes
    <3>2. rxcnt' \in Nat /\ rxcnt' <= rxcnt /\ pc' \in {"send", "full"}
      BY <2>0, <3>1, SMTT(20) DEF SentWord
    <3>3. pc = "send" /\ txcnt' = txcnt - 1 /\ txcnt > 0
      BY <2>2 DEF SendWord
    <3> QED BY <2>0, <3>2, <3>3, SMTT(20) DEF Fuel
  <2>3. CASE EndSending
    BY <2>0, <2>3, SMTT(20) DEF EndSending, Fuel
  <2>4. CASE ReceiveWord
    BY <2>0, <2>4, SMTT(20) DEF ReceiveWord, Fuel
  <2>5. CASE EndRun
    BY <2>0, <2>5, SMTT(20) DEF EndRun, Fuel
  <2>6. CASE EndAccess
    BY <2>0, <2>6, SMTT(20) DEF EndAccess, Fuel
  <2>7. CASE RegisterStep
    BY <2>7, RegisterStepTyped
  <2>8. CASE SIOStep \/ Reset
    BY <2>8 DEF SIOStep, Reset
  <2> QED BY <2>1, <2>2, <2>3, <2>4, <2>5, <2>6, <2>7, <2>8 DEF Next, RunStep
<1> QED BY <1>1, TypeCorrect, PTL DEF Spec, RunProgresses

\* The controller never asks dma_read or dma_write for more than the buffers
\* have room for: they fall short only if a buffer cannot be mapped, whatever
\* the buffers and the transfers are (apple_spi_update_xfer_tx,
\* apple_spi_flush_rx).
THEOREM ShortOnlyOnBadMapping == Spec => []ShortNeedsBadMapping
<1>1. Init => ShortNeedsBadMapping
  BY DEF Init, SIOInit, ShortNeedsBadMapping
<1>2. ASSUME TypeOK, ShortNeedsBadMapping, [Next]_vars PROVE ShortNeedsBadMapping'
  <2> USE <1>2 DEF ShortNeedsBadMapping
  <2>0. failed \in BOOLEAN /\ short \in BOOLEAN
    BY DEF TypeOK
  <2>1. ASSUME NEW r, NEW w, NEW n, NEW k,
               Moved(r, buffers["tx"], n), Moved(w, buffers["rx"], k), Transferred(r, w)
        PROVE  short' => failed'
    BY ONLY ShortNeedsBadMapping, <2>0, <2>1, TransferredOK, SMTT(20)
       DEF ShortNeedsBadMapping
  <2>2. /\ Moved(NoTransfer("tx"), buffers["tx"], 0)
        /\ Moved(NoTransfer("rx"), buffers["rx"], 0)
    BY NothingMoved DEF Endpoints
  <2>3. CASE BeginRun
    <3>1. PICK r : /\ Refilled(r, txfifo, txcnt)
                   /\ Transferred(r.move, NoTransfer("rx"))
      BY <2>3, BeginRunDoes
    <3>2. Moved(r.move, buffers["tx"], r.n - txfifo)
      BY <3>1 DEF Refilled
    <3> QED BY <2>1, <2>2, <3>1, <3>2
  <2>4. CASE SendWord
    <3>1. PICK r, f : SentWord(r, f)
      BY <2>4, SendWordDoes
    <3>2. /\ Moved(r.move, buffers["tx"], r.n - (txfifo - 1))
          /\ Moved(f.move, buffers["rx"], rxfifo - f.n)
          /\ Transferred(r.move, f.move)
      BY <3>1 DEF SentWord, Refilled, Flushed
    <3> QED BY <2>1, <3>2
  <2>5. CASE EndSending \/ EndRun
    <3>1. PICK f, need : /\ Flushed(f, rxfifo, need)
                         /\ Transferred(NoTransfer("tx"), f.move)
      BY <2>5, EndSendingDoes, EndRunDoes, Zenon
    <3>2. Moved(f.move, buffers["rx"], rxfifo - f.n)
      BY <3>1 DEF Flushed
    <3> QED BY <2>1, <2>2, <3>1, <3>2
  <2>6. CASE ReceiveWord \/ RegisterStep
    BY <2>6, RegisterStepTyped, Zenon DEF ReceiveWord, sioVars
  <2>7. CASE EndAccess
    BY <2>7 DEF EndAccess
  <2>8. CASE SIOStep
    BY <2>8, SIOStepTyped, ZenonT(30) DEF history
  <2>9. CASE Reset
    BY <2>9 DEF Reset, apple_sio_reset_hold, history
  <2>10. CASE UNCHANGED vars
    BY <2>10 DEF vars, sioVars
  <2> QED BY <2>3, <2>4, <2>5, <2>6, <2>7, <2>8, <2>9, <2>10, SMTT(20) DEF Next, RunStep
<1> QED BY <1>1, <1>2, TypeCorrect, PTL DEF Spec

LEMMA SoundStep ==
    ASSUME TypeOK, TypeOK', SoundInv, [Next]_vars
    PROVE  SoundInv'
<1> SUFFICES ASSUME sound', ~failed',
                    pc' \in {"send", "full", "generate", "done"}
             PROVE  SoundInv'
  BY DEF SoundInv
<1> DEFINE T == Room(buffers["tx"])
           R == Room(buffers["rx"])
           T1 == Room(buffers'["tx"])
           R1 == Room(buffers'["rx"])
<1>0. /\ failed \in BOOLEAN /\ short \in BOOLEAN /\ sound \in BOOLEAN
      /\ Depth \in Nat /\ Depth > 0
      /\ txcnt \in Nat /\ rxcnt \in Nat
      /\ txfifo \in 0 .. Depth /\ rxfifo \in 0 .. Depth
  BY SPIConstants, SMTT(20) DEF TypeOK
<1>a. T \in Nat /\ R \in Nat /\ T1 \in Nat /\ R1 \in Nat
  BY RoomType DEF TypeOK, Endpoints
\* A move in a run that meets no bad mapping: all that was asked for was moved.
<1>b. ASSUME NEW r, NEW w, NEW n, NEW k,
             Moved(r, buffers["tx"], n), Moved(w, buffers["rx"], k), Transferred(r, w)
      PROVE  ~failed /\ T1 = T - n + 0 /\ R1 = R - k + 0
  <2>1. /\ ~failed /\ r.left = 0 /\ w.left = 0
        /\ buffers'["tx"] = r.rest /\ buffers'["rx"] = w.rest
    <3>1. ~failed'
      OBVIOUS
    <3> QED BY ONLY <1>0, <1>b, <3>1, TransferredOK, SMTT(20)
  <2>2. Room(r.rest) = Room(buffers["tx"]) - n + r.left /\ Room(w.rest) = Room(buffers["rx"]) - k + w.left
    BY <1>b DEF Moved
  <2> QED BY <2>1, <2>2, Zenon
<1>c. /\ Moved(NoTransfer("tx"), buffers["tx"], 0)
      /\ Moved(NoTransfer("rx"), buffers["rx"], 0)
  BY NothingMoved DEF Endpoints
<1>d. /\ txfifo \in Int /\ rxfifo \in Int /\ txcnt \in Int /\ rxcnt \in Int
      /\ T \in Int /\ R \in Int /\ T1 \in Int /\ R1 \in Int
  BY <1>0, <1>a, SMTT(20)
<1> HIDE DEF T, R, T1, R1
<1>1. CASE BeginRun
  <2>1. PICK r : /\ Refilled(r, txfifo, txcnt) /\ txfifo' = r.n
                 /\ Transferred(r.move, NoTransfer("rx"))
    BY <1>1, BeginRunDoes
  <2>2. Moved(r.move, buffers["tx"], txfifo' - txfifo)
    BY <2>1 DEF Refilled
  <2>3. T1 = T - (txfifo' - txfifo) + 0 /\ R1 = R - 0 + 0
    BY <1>b, <1>c, <2>1, <2>2
  <2>4. /\ txfifo' \in txfifo .. Depth
        /\ txfifo > 0 => txfifo' = txfifo
        /\ cfg.mode = "DMA" /\ txcnt > 0 /\ T > 0 => txfifo' > 0
    BY <2>1 DEF Refilled, T
  <2>5. /\ cfg.mode = "DMA" /\ T + txfifo >= txcnt /\ R >= rxcnt + rxfifo
        /\ rxcnt <= txcnt \/ (cfg.agd /\ txcnt = 0 /\ rxcnt + rxfifo <= Depth)
    <3>1. HasAllItNeeds
      BY <1>1 DEF BeginRun
    <3>2. apple_sio_dma_remaining("tx") = T /\ apple_sio_dma_remaining("rx") = R
      BY RemainingIsRoom DEF Endpoints, T, R
    <3> QED BY <3>1, <3>2 DEF HasAllItNeeds
  <2>6. /\ pc' = "send" /\ UNCHANGED <<cfg, txcnt, rxcnt, rxfifo>>
    BY <1>1 DEF BeginRun
  <2>7. /\ T1 + txfifo' >= txcnt /\ R1 >= rxcnt + rxfifo
        /\ txcnt > 0 => txfifo' > 0
    <3>1. T + txfifo >= txcnt /\ R >= rxcnt + rxfifo
      BY <2>5
    <3>2. PICK x \in Nat : x = txfifo'
      BY <1>0, <2>4, SMTT(20)
    <3>3. T1 + txfifo' = T + txfifo /\ R1 = R
      <4>1. T1 = T - (x - txfifo) + 0 /\ R1 = R - 0 + 0
        BY <2>3, <3>2
      <4>2. T1 + x = T + txfifo /\ R1 = R
        BY ONLY <1>d, <4>1, x \in Nat, SMTT(20)
      <4> QED BY <3>2, <4>2
    <3>4. txcnt > 0 => txfifo > 0 \/ T > 0
      BY ONLY <1>0, <1>a, <3>1, SMTT(20)
    <3>5. txcnt > 0 => txfifo' > 0
      BY <2>4, <2>5, <3>4
    <3> QED BY <3>1, <3>3, <3>5
  <2> QED BY <2>5, <2>6, <2>7 DEF SoundInv, T1, R1
<1>2. CASE SendWord
  <2>1. PICK r, f : SentWord(r, f)
    BY <1>2, SendWordDoes
  <2>2. /\ Moved(r.move, buffers["tx"], r.n - (txfifo - 1))
        /\ Moved(f.move, buffers["rx"], rxfifo - f.n)
        /\ Transferred(r.move, f.move)
    BY <2>1, ZenonT(30) DEF SentWord, Refilled, Flushed
  <2>3. ~failed /\ T1 = T - (r.n - (txfifo - 1)) + 0 /\ R1 = R - (rxfifo - f.n) + 0
    BY <1>b, <2>2, ZenonT(30)
  <2>4. /\ pc = "send" /\ txcnt > 0 /\ txfifo > 0 /\ txcnt' = txcnt - 1 /\ cfg' = cfg
        /\ sound
    BY <1>2 DEF SendWord
  <2>5. /\ cfg.mode = "DMA" /\ T + txfifo >= txcnt /\ R >= rxcnt + rxfifo /\ rxcnt <= txcnt
    BY <1>0, <2>3, <2>4, SMTT(20) DEF SoundInv, T, R
  <2>6. /\ r.n \in txfifo - 1 .. Depth /\ (txfifo - 1 > 0 => r.n = txfifo - 1)
        /\ txcnt - 1 > 0 /\ T > 0 => r.n > 0
    BY <2>1, <2>5 DEF SentWord, Refilled, T
  <2>7. f.n \in 0 .. rxfifo /\ (rxcnt > 0 => f.n # Depth)
    <3>1. R >= rxfifo
      BY <1>0, <1>a, <2>5, SMTT(20)
    <3>2. /\ f.n \in 0 .. rxfifo
          /\ rxcnt > 0 /\ rxfifo = Depth => f.n = 0
          /\ ~(rxcnt > 0 /\ rxfifo = Depth) => f.n = rxfifo
      BY <2>1, <2>5, <3>1 DEF SentWord, Flushed, R
    <3> QED BY ONLY <1>0, <3>2, SMTT(20)
  <2>8. /\ pc' = "send" /\ txfifo' = r.n
        /\ rxcnt > 0 => rxfifo' = f.n + 1 /\ rxcnt' = rxcnt - 1
        /\ ~(rxcnt > 0) => rxfifo' = f.n /\ rxcnt' = rxcnt
    BY <2>1, <2>7 DEF SentWord
  <2>9. T1 + r.n = T + (txfifo - 1) /\ R1 = R - rxfifo + f.n
    BY ONLY <1>0, <1>a, <2>3, <2>6, <2>7, SMTT(20)
  <2>10. T1 + txfifo' >= txcnt - 1
    BY ONLY <1>0, <1>a, <2>5, <2>6, <2>8, <2>9, SMTT(20)
  <2>11. R1 >= rxcnt' + rxfifo' /\ rxcnt' <= txcnt - 1
    BY ONLY <1>0, <1>a, <2>4, <2>5, <2>7, <2>8, <2>9, SMTT(20)
  <2>12. txcnt - 1 > 0 => r.n > 0
    BY ONLY <1>0, <1>a, <2>4, <2>5, <2>6, SMTT(20)
  <2> QED BY <2>4, <2>5, <2>8, <2>10, <2>11, <2>12, Zenon DEF SoundInv, T1, R1
<1>3. CASE EndSending
  <2>1. PICK f : /\ Flushed(f, rxfifo, rxfifo = Depth) /\ rxfifo' = f.n
                 /\ Transferred(NoTransfer("tx"), f.move)
    BY <1>3, EndSendingDoes
  <2>2. Moved(f.move, buffers["rx"], rxfifo - rxfifo') /\ rxfifo' \in 0 .. rxfifo
    BY <2>1 DEF Flushed
  <2>3. ~failed /\ R1 = R - (rxfifo - rxfifo') + 0
    BY <1>b, <1>c, <2>1, <2>2
  <2>4. /\ pc' = "generate" /\ UNCHANGED <<cfg, txcnt, rxcnt, sound>>
        /\ pc = "full" \/ (pc = "send" /\ (txcnt = 0 \/ txfifo = 0))
    BY <1>3, Zenon DEF EndSending
  <2>5. /\ cfg.mode = "DMA" /\ R >= rxcnt + rxfifo /\ txcnt = 0
        /\ rxcnt = 0 \/ (cfg.agd /\ rxcnt + rxfifo <= Depth)
    BY <1>0, <2>3, <2>4, SMTT(20) DEF SoundInv, R
  <2>6. R1 >= rxcnt + rxfifo'
    <3>1. R >= rxcnt + rxfifo
      BY <2>5
    <3>2. PICK x \in Nat : x = rxfifo'
      BY <2>2, SMTT(20)
    <3>3. R1 = R - (rxfifo - x) + 0
      BY <2>3, <3>2
    <3>4. R1 >= rxcnt + x
      BY ONLY <1>d, <3>1, <3>3, x \in Nat, SMTT(20)
    <3> QED BY <3>2, <3>4
  <2>7. rxcnt + rxfifo <= Depth => rxcnt + rxfifo' <= Depth
    <3>1. rxfifo' \in Nat /\ rxfifo' <= rxfifo
      BY <1>0, <2>2, SMTT(20)
    <3>2. \A x \in Nat : x <= rxfifo /\ rxcnt + rxfifo <= Depth => rxcnt + x <= Depth
      BY ONLY <1>0, SMT
    <3> QED BY ONLY <3>1, <3>2, SMTT(20)
  <2> QED BY <2>4, <2>5, <2>6, <2>7 DEF SoundInv, R1
<1>4. CASE ReceiveWord
  <2>1. /\ pc = "generate" /\ rxfifo < Depth /\ rxcnt > 0 /\ cfg.agd
        /\ rxfifo' = rxfifo + 1 /\ rxcnt' = rxcnt - 1
        /\ UNCHANGED <<cfg, txcnt, pc, sound, buffers, failed>>
    BY <1>4, ZenonT(30) DEF ReceiveWord, sioVars
  <2>2. /\ cfg.mode = "DMA" /\ R >= rxcnt + rxfifo /\ txcnt = 0
        /\ rxcnt + rxfifo <= Depth
    BY <1>0, <2>1, SMTT(20) DEF SoundInv, R
  <2>3. R >= rxcnt' + rxfifo' /\ rxcnt' + rxfifo' <= Depth
    BY ONLY <1>0, <1>a, <2>1, <2>2, SMTT(20)
  <2> QED BY <2>1, <2>2, <2>3, Zenon DEF SoundInv, R
<1>5. CASE EndRun
  <2>1. PICK f : /\ Flushed(f, rxfifo, TRUE) /\ rxfifo' = f.n
                 /\ Transferred(NoTransfer("tx"), f.move)
    BY <1>5, EndRunDoes, Zenon
  <2>2. Moved(f.move, buffers["rx"], rxfifo - f.n)
    BY <2>1 DEF Flushed
  <2>3. ~failed
    BY <1>b, <1>c, <2>1, <2>2
  <2>4. /\ pc = "generate" /\ ~(rxfifo < Depth /\ rxcnt > 0 /\ cfg.agd)
        /\ pc' = "done" /\ UNCHANGED <<txcnt, rxcnt, sound>>
    BY <1>5, Zenon DEF EndRun
  <2>5. /\ cfg.mode = "DMA" /\ R >= rxcnt + rxfifo /\ txcnt = 0
        /\ rxcnt = 0 \/ (cfg.agd /\ rxcnt + rxfifo <= Depth)
    BY <1>0, <2>3, <2>4 DEF SoundInv, R
  <2>6. rxcnt = 0
    BY <1>0, <2>4, <2>5, SMTT(20)
  <2>7. R >= rxfifo
    BY <1>0, <1>a, <2>5, SMTT(20)
  <2>8. rxfifo' = 0
    BY <2>1, <2>5, <2>7 DEF Flushed, R
  <2> QED BY <2>4, <2>5, <2>6, <2>8 DEF SoundInv
<1>6. CASE EndAccess
  BY <1>6 DEF EndAccess
<1>7. CASE RegisterStep
  BY <1>7, RegisterStepTyped
<1>8. CASE SIOStep
  BY <1>8 DEF SIOStep, spiVars
<1>9. CASE Reset
  BY <1>9 DEF Reset
<1>10. CASE UNCHANGED vars
  BY <1>10 DEF vars, sioVars, spiVars, SoundInv
<1> QED BY <1>1, <1>2, <1>3, <1>4, <1>5, <1>6, <1>7, <1>8, <1>9, <1>10, SMTT(20)
           DEF Next, RunStep

\* A DMA transfer that has all it needs when it begins, and meets no buffer it
\* cannot map, uses up both counts and leaves nothing in the receive FIFO, for
\* every depth, counts and division of the memory into buffers (apple_spi_run).
THEOREM SoundRunsComplete == Spec => []SoundRunCompletes
<1>1. Init => SoundInv
  BY DEF Init, SoundInv
<1>2. TypeOK /\ TypeOK' /\ SoundInv /\ [Next]_vars => SoundInv'
  BY SoundStep
<1>3. SoundInv => SoundRunCompletes
  BY DEF SoundInv, SoundRunCompletes
<1> QED BY <1>1, <1>2, <1>3, TypeCorrect, PTL DEF Spec

-----------------------------------------------------------------------------
(* The loop of apple_sio_dma_read and apple_sio_dma_write keeps the order. *)

\* After the turns up to i; if more is to be moved and nothing failed, all
\* buffers so far are used up.
TurnOrder(q, i, a) ==
    /\ FirstTags(q, i) = Cat(a.done, TagList(a.rest))
    /\ a.left > 0 /\ ~a.stuck => a.rest = <<>>

LEMMA TransferInOrder ==
    \A ep \in Endpoints, len \in Nat : \A bad :
        buffers[ep] \in Seq(Buffers) => InOrder(Transfer(ep, len, bad), buffers[ep])
<1>FirstTagsMore.
      ASSUME NEW q \in Seq(Buffers), NEW i \in 1 .. Len(q)
      PROVE  FirstTags(q, i) = Cat(FirstTags(q, i - 1), One(q[i].tag))
  <2> USE <1>FirstTagsMore
  <2>1. i \in Nat /\ i > 0 /\ FirstTags(q, i - 1) = [k \in 1 .. i - 1 |-> q[k].tag]
    BY SMTT(20) DEF FirstTags
  <2>2. Cat(FirstTags(q, i - 1), One(q[i].tag)) = [k \in 1 .. i |-> q[k].tag]
    <3>1. PICK n \in Nat : n = i - 1
      BY <2>1, SMTT(20)
    <3>2. i = n + 1
      BY <3>1, SMTT(20)
    <3>3. [k \in 1 .. n |-> q[k].tag] \o <<q[n + 1].tag>> = [k \in 1 .. n + 1 |-> q[k].tag]
      BY SMT
    <3> QED BY <2>1, <3>1, <3>2, <3>3 DEF Cat, One
  <2> QED BY <2>2 DEF FirstTags
<1>TurnKeepsOrder.
      ASSUME NEW q \in Seq(Buffers), NEW bad, NEW i \in 1 .. Len(q),
             NEW a \in Accs(bad), TurnOrder(q, i - 1, a)
      PROVE  TurnOrder(q, i, Use(a, q[i]))
  <2> USE <1>TurnKeepsOrder
  <2> DEFINE u == Use(a, q[i])
  <2>1. PICK b \in Buffers : b = q[i]
    BY SMTT(20)
  <2>2. u \in Accs(bad)
    BY <2>1, UseCases
  <2>3. \/ Skips(a, b, u) \/ Sticks(a, b, u) \/ UsesUp(a, b, u) \/ UsesPart(a, b, u)
    BY <2>1, UseCases, ZenonT(30)
  <2> HIDE DEF u
  <2>4. a.rest \in Seq(Buffers) /\ a.done \in Seq(Tags) /\ b.tag \in Tags /\ One(b.tag) \in Seq(Tags)
    BY OneType DEF Accs, Buffers
  <2>5. TagList(a.rest) \in Seq(Tags)
    BY <2>4, BufferTagList
  <2>6. FirstTags(q, i) = Cat(Cat(a.done, TagList(a.rest)), One(b.tag))
    <3>1. FirstTags(q, i) = Cat(FirstTags(q, i - 1), One(q[i].tag))
      BY <1>FirstTagsMore
    <3>2. FirstTags(q, i - 1) = Cat(a.done, TagList(a.rest))
      BY ZenonT(30) DEF TurnOrder
    <3> QED BY <2>1, <3>1, <3>2, ZenonT(30)
  <2>7. FirstTags(q, i) = Cat(a.done, Cat(TagList(a.rest), One(b.tag)))
    BY <2>4, <2>5, <2>6, CatAssoc
  <2>8. ASSUME NEW c \in Buffers, c.tag = b.tag, u.rest = Append(a.rest, c), u.done = a.done
        PROVE  FirstTags(q, i) = Cat(u.done, TagList(u.rest))
    <3>1. TagList(Append(a.rest, c)) = Cat(TagList(a.rest), One(c.tag))
      BY <2>4, OneMoreBuffer
    <3> QED BY <2>7, <2>8, <3>1, ZenonT(30)
  <2>9. CASE Skips(a, b, u)
    <3>1. u.rest = Append(a.rest, b) /\ u.done = a.done
      BY <2>9, ZenonT(30) DEF Skips
    <3>2. FirstTags(q, i) = Cat(u.done, TagList(u.rest))
      BY <2>8, <3>1, ZenonT(30)
    <3>3. ~(u.left > 0 /\ ~u.stuck)
      BY <2>9, SMT DEF Skips
    <3>4. TurnOrder(q, i, u)
      BY <3>2, <3>3, ZenonT(30) DEF TurnOrder
    <3> QED BY <3>4 DEF u
  <2>10. CASE Sticks(a, b, u)
    <3>1. u.rest = Append(a.rest, b) /\ u.done = a.done /\ u.stuck
      BY <2>10 DEF Sticks
    <3>2. FirstTags(q, i) = Cat(u.done, TagList(u.rest))
      BY <2>8, <3>1, ZenonT(30)
    <3>3. TurnOrder(q, i, u)
      BY <3>1, <3>2, ZenonT(30) DEF TurnOrder
    <3> QED BY <3>3 DEF u
  <2>11. CASE UsesUp(a, b, u)
    <3>1. u.rest = a.rest /\ u.done = Append(a.done, b.tag) /\ a.rest = <<>>
      BY <2>11, Zenon DEF UsesUp, TurnOrder
    <3>2. u.done = Cat(a.done, One(b.tag)) /\ u.done \in Seq(Tags)
      <4>1. u.done \in Seq(Tags)
        BY <2>2 DEF Accs
      <4>2. Append(a.done, b.tag) = Cat(a.done, One(b.tag))
        BY <2>4, AppendOne
      <4> QED BY <3>1, <4>1, <4>2, ZenonT(30)
    <3>3. TagList(a.rest) = <<>>
      BY <3>1, TagListNone, ZenonT(30)
    <3>4. Cat(a.done, TagList(a.rest)) = a.done /\ Cat(u.done, TagList(u.rest)) = u.done
      BY <2>4, <3>1, <3>2, <3>3, CatNil, ZenonT(30)
    <3>5. FirstTags(q, i) = Cat(u.done, TagList(u.rest))
      BY <2>6, <3>2, <3>4, ZenonT(30)
    <3>6. TurnOrder(q, i, u)
      BY <3>1, <3>5, ZenonT(30) DEF TurnOrder
    <3> QED BY <3>6 DEF u
  <2>12. CASE UsesPart(a, b, u)
    <3>1. PICK c \in Buffers : u.rest = Append(a.rest, c) /\ c.tag = b.tag
      BY <2>12, ZenonT(30) DEF UsesPart
    <3>2. u.done = a.done /\ u.left = 0
      BY <2>12, ZenonT(30) DEF UsesPart
    <3>3. FirstTags(q, i) = Cat(u.done, TagList(u.rest))
      BY <2>8, <3>1, <3>2, ZenonT(30)
    <3>4. ~(u.left > 0)
      BY <3>2, SMTT(20)
    <3>5. TurnOrder(q, i, u)
      BY <3>3, <3>4, ZenonT(30) DEF TurnOrder
    <3> QED BY <3>5 DEF u
  <2> QED BY <2>3, <2>9, <2>10, <2>11, <2>12, ZenonT(30)
<1>TransferInOrder.
      ASSUME NEW ep \in Endpoints, buffers[ep] \in Seq(Buffers), NEW len \in Nat, NEW bad
      PROVE  InOrder(Transfer(ep, len, bad), buffers[ep])
  <2> USE <1>TransferInOrder
  <2> DEFINE q == buffers[ep]
             n == Len(q)
             f == Turns(q, len, bad)
             S == {i \in 0 .. n : TurnOrder(q, i, f[i])}
  <2>0. n \in Nat /\ q \in Seq(Buffers)
    BY SMTT(20)
  <2>1. /\ f \in [0 .. n -> Accs(bad)] /\ f[0] = Start(len, bad)
        /\ \A i \in 1 .. n : f[i] = Use(f[i - 1], q[i])
    BY TurnsRec, SMTT(20)
  <2>2. 0 \in S
    <3>1. FirstTags(q, 0) = <<>>
      BY SMT DEF FirstTags
    <3>2. f[0].done = <<>> /\ f[0].rest = <<>>
      BY <2>1, SMTT(20) DEF Start
    <3>3. Cat(<<>>, TagList(<<>>)) = <<>>
      BY TagListNone, SMT DEF Cat
    <3> HIDE DEF f, q
    <3>4. TurnOrder(q, 0, f[0])
      BY <3>1, <3>2, <3>3 DEF TurnOrder
    <3> QED BY <2>0, <3>4, SMT
  <2>3. ASSUME NEW i \in 1 .. n, i - 1 \in S PROVE i \in S
    <3>1. /\ i - 1 \in 0 .. n /\ i \in 0 .. n
          /\ TurnOrder(q, i - 1, f[i - 1]) /\ f[i - 1] \in Accs(bad)
          /\ f[i] = Use(f[i - 1], q[i])
      BY <2>0, <2>1, <2>3, SMTT(20)
    <3> HIDE DEF f
    <3>2. TurnOrder(q, i, Use(f[i - 1], q[i]))
      BY <2>0, <3>1, <1>TurnKeepsOrder, Zenon
    <3> QED BY <3>1, <3>2, ZenonT(30)
  <2>4. TurnOrder(q, n, f[n]) /\ f[n] \in Accs(bad)
    <3> HIDE DEF S, n, f, q
    <3>1. \A i \in 0 .. n : i \in S
      BY <2>0, <2>2, <2>3, InductionTo, Zenon
    <3> QED BY <2>0, <2>1, <3>1, SMT DEF S
  <2>5. Transfer(ep, len, bad) = f[n]
    BY TransferIsTurns
  <2>6. TagList(q) = FirstTags(q, n)
    BY <2>0, BufferTagList
  <2> HIDE DEF f, n, q
  <2>7. f[n].rest \in Seq(Buffers) /\ f[n].done \in Seq(Tags)
    BY <2>4 DEF Accs
  <2>8. InOrder(f[n], q)
    BY <2>4, <2>6, <2>7, ZenonT(30) DEF TurnOrder, InOrder
  <2> QED BY <2>5, <2>8 DEF q
<1> QED BY <1>TransferInOrder

LEMMA NoTransferInOrder ==
    ASSUME TypeOK, NEW ep \in Endpoints
    PROVE  InOrder(NoTransfer(ep), buffers[ep])
<1>1. buffers[ep] \in Seq(Buffers) /\ 0 \in Nat
  BY DEF TypeOK
<1> QED BY <1>1, TransferInOrder DEF NoTransfer

LEMMA RefillInOrder ==
    ASSUME TypeOK, NEW n, NEW cnt \in Nat, NEW bad
    PROVE  InOrder(Refill(n, cnt, bad).move, buffers["tx"])
<1> DEFINE T == Room(buffers["tx"])
           d == Min({cnt, Depth, apple_sio_dma_remaining("tx")})
           m == Refill(n, cnt, bad).move
<1>1. buffers["tx"] \in Seq(Buffers) /\ Depth \in Nat /\ "tx" \in Endpoints
  BY SPIConstants DEF TypeOK, Endpoints
<1>2. T \in Nat /\ apple_sio_dma_remaining("tx") = T
  BY <1>1, RoomType, RemainingIsRoom
<1>3. d \in Nat
  <2> HIDE DEF T
  <2>1. cnt \in Int /\ Depth \in Int /\ T \in Int
    BY <1>1, <1>2, SMTT(20)
  <2>2. Min({cnt, Depth, T}) \in {cnt, Depth, T}
    BY <2>1, MinOfThree, Zenon
  <2> QED BY <1>1, <1>2, <2>2, ZenonT(30)
<1>4. m = NoTransfer("tx") \/ m = Transfer("tx", d, bad)
  BY Zenon DEF Refill
<1> HIDE DEF m, d
<1>5. InOrder(m, buffers["tx"])
  BY <1>1, <1>3, <1>4, NoTransferInOrder, TransferInOrder
<1> QED BY <1>5 DEF m

LEMMA FlushInOrder ==
    ASSUME TypeOK, NEW n \in Nat, NEW bad
    PROVE  /\ InOrder(Flush(n, bad).move, buffers["rx"])
           /\ InOrder(FlushIfFull(n, bad).move, buffers["rx"])
<1> DEFINE R == Room(buffers["rx"])
           d == Min({n, apple_sio_dma_remaining("rx")})
           m == Flush(n, bad).move
           f == FlushIfFull(n, bad).move
<1>1. buffers["rx"] \in Seq(Buffers) /\ "rx" \in Endpoints
  BY DEF TypeOK, Endpoints
<1>2. R \in Nat /\ apple_sio_dma_remaining("rx") = R
  BY <1>1, RoomType, RemainingIsRoom
<1>3. d \in Nat
  <2> HIDE DEF R
  <2>1. Min({n, R}) = IF n <= R THEN n ELSE R
    BY <1>2, MinOfTwo, SMTT(20)
  <2> QED BY <1>2, <2>1
<1>4. m = NoTransfer("rx") \/ m = Transfer("rx", d, bad)
  BY ZenonT(30) DEF Flush
<1>5. f = NoTransfer("rx") \/ f = m
  BY DEF FlushIfFull
<1> HIDE DEF m, d, f
<1>6. InOrder(m, buffers["rx"])
  BY <1>1, <1>3, <1>4, NoTransferInOrder, TransferInOrder
<1>7. InOrder(f, buffers["rx"])
  BY <1>1, <1>5, <1>6, NoTransferInOrder
<1> QED BY <1>6, <1>7, ZenonT(30) DEF m, f

LEMMA NextPlaced ==
    ASSUME TypeOK, AllPlaced, [Next]_vars
    PROVE  AllPlaced'
<1>0. ASSUME UNCHANGED <<buffers, toSIO, toAP, held, stopping>> PROVE AllPlaced'
  BY <1>0, ZenonT(30) DEF AllPlaced
<1>a. /\ InOrder(NoTransfer("tx"), buffers["tx"])
      /\ InOrder(NoTransfer("rx"), buffers["rx"])
  BY NoTransferInOrder DEF Endpoints
<1>b. txcnt \in Nat /\ rxfifo \in Nat
  BY SPIConstants, SMTT(20) DEF TypeOK
<1>1. CASE BeginRun
  <2>1. PICK bad : Transferred(Refill(txfifo, txcnt, bad).move, NoTransfer("rx"))
    BY <1>1 DEF BeginRun
  <2>2. InOrder(Refill(txfifo, txcnt, bad).move, buffers["tx"])
    BY <1>b, RefillInOrder
  <2>3. UNCHANGED <<toSIO, held, stopping>>
    BY <1>1 DEF BeginRun
  <2> QED BY <1>a, <2>1, <2>2, <2>3, Placing
<1>2. CASE SendWord
  <2> DEFINE R(bad) == Refill(txfifo - 1, txcnt - 1, bad)
             F(bad) == IF rxcnt > 0 THEN FlushIfFull(rxfifo, bad)
                       ELSE [n |-> rxfifo, move |-> NoTransfer("rx")]
  <2>1. PICK bad, badrx : Transferred(R(bad).move, F(badrx).move)
    BY <1>2, ZenonT(30) DEF SendWord
  <2>2. txcnt - 1 \in Nat
    BY <1>2, <1>b, SMTT(20) DEF SendWord
  <2>3. InOrder(R(bad).move, buffers["tx"])
    BY <2>2, RefillInOrder
  <2>4. F(badrx).move = FlushIfFull(rxfifo, badrx).move \/ F(badrx).move = NoTransfer("rx")
    OBVIOUS
  <2>5. UNCHANGED <<toSIO, held, stopping>>
    BY <1>2, ZenonT(30) DEF SendWord
  <2> HIDE DEF R, F
  <2>6. InOrder(F(badrx).move, buffers["rx"])
    BY <1>a, <1>b, <2>4, FlushInOrder, ZenonT(30)
  <2> QED BY <2>1, <2>3, <2>5, <2>6, Placing, ZenonT(30)
<1>3. CASE EndSending
  <2>1. PICK bad : Transferred(NoTransfer("tx"), FlushIfFull(rxfifo, bad).move)
    BY <1>3 DEF EndSending
  <2>2. InOrder(FlushIfFull(rxfifo, bad).move, buffers["rx"])
    BY <1>b, FlushInOrder, ZenonT(30)
  <2>3. UNCHANGED <<toSIO, held, stopping>>
    BY <1>3 DEF EndSending
  <2> QED BY <1>a, <2>1, <2>2, <2>3, Placing
<1>4. CASE ReceiveWord
  <2>1. UNCHANGED sioVars
    BY <1>4 DEF ReceiveWord
  <2> QED BY <1>0, <2>1 DEF sioVars
<1>5. CASE EndRun
  <2>1. PICK bad : Transferred(NoTransfer("tx"), Flush(rxfifo, bad).move)
    BY <1>5 DEF EndRun
  <2>2. InOrder(Flush(rxfifo, bad).move, buffers["rx"])
    BY <1>b, FlushInOrder, ZenonT(30)
  <2>3. UNCHANGED <<toSIO, held, stopping>>
    BY <1>5 DEF EndRun
  <2> QED BY <1>a, <2>1, <2>2, <2>3, Placing
<1>6. CASE EndAccess
  <2>1. UNCHANGED <<buffers, toSIO, toAP, held, stopping>>
    BY <1>6 DEF EndAccess
  <2> QED BY <1>0, <2>1
<1>7. CASE RegisterStep
  <2>1. UNCHANGED sioVars
    BY <1>7, RegisterStepTyped
  <2> QED BY <1>0, <2>1 DEF sioVars
<1>8. CASE SIOStep
  <2>1. \/ apple_sio_handle_endpoint
        \/ DriverReceive
        \/ \E ep \in Endpoints, tag \in Tags : DriverMap(ep, tag)
        \/ \E ep \in Endpoints : DriverStop(ep)
    BY <1>8 DEF SIOStep
  <2>2. CASE apple_sio_handle_endpoint
    BY <2>2, Placing
  <2>3. CASE DriverReceive
    BY <2>3, Placing
  <2>4. ASSUME NEW ep \in Endpoints, NEW tag \in Tags, DriverMap(ep, tag) PROVE AllPlaced'
    BY <2>4, Placing
  <2>5. ASSUME NEW ep \in Endpoints, DriverStop(ep) PROVE AllPlaced'
    BY <2>5, Placing
  <2> QED BY <2>1, <2>2, <2>3, <2>4, <2>5
<1>9. CASE Reset
  <2>1. apple_sio_reset_hold
    BY <1>9 DEF Reset
  <2> QED BY <2>1, Placing
<1>10. CASE UNCHANGED vars
  <2>1. UNCHANGED sioVars
    BY <1>10 DEF vars
  <2> QED BY <1>0, <2>1 DEF sioVars
<1> QED BY <1>1, <1>2, <1>3, <1>4, <1>5, <1>6, <1>7, <1>8, <1>9, <1>10 DEF Next, RunStep

\* No DMA buffer is lost, completed twice or completed out of order, however
\* many the driver hands out, whatever their tags and sizes: what the driver
\* holds is, in order, what was completed, what the SIO has queued and what it
\* has not been told of, apart from refused buffers and from those whose STOP is
\* about to be answered (apple_sio_dma_writeback, apple_sio_dma_stop, the MAP
\* case of apple_sio_dma).
THEOREM BuffersStayAccounted == Spec => []BuffersAccounted
<1>1. TypeOK /\ AllPlaced /\ [Next]_vars => AllPlaced'
  BY NextPlaced
<1>2. (Init => AllPlaced) /\ (AllPlaced => BuffersAccounted)
  BY Placing
<1> QED BY <1>1, <1>2, TypeCorrect, PTL DEF Spec
=============================================================================
