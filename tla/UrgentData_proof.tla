-------------------------- MODULE UrgentData_proof --------------------------
(***************************************************************************)
(* What holds of the programs that use TCP's urgent data.  The heartbeat:  *)
(* for any maxnprobes, any faults and any lines typed, a live peer is      *)
(* given up only after as many seconds with a late heartbeat, or torn      *)
(* increments, as it takes, and prompt heartbeats are never confused with  *)
(* the lines.  The out-of-band samples: for any calls of the sender, any   *)
(* segments and any marks, no byte is lost or printed twice without one of *)
(* the causes that Accounted names, and the selecting receiver does not    *)
(* block.                                                                  *)
(***************************************************************************)
EXTENDS HeartBeat, OutOfBand, FiniteSetTheorems, SequenceTheorems, WellFoundedInduction, TLAPS

-----------------------------------------------------------------------------
(* The heartbeat *)

Items  == {"line", "probe", "stray", "fin", "rst"}
Stacks == {<<>>, <<"urg">>, <<"alrm">>, <<"urg", "alrm">>, <<"alrm", "urg">>}
Ways   == {"up", "crashed", "recv_error", "sigpipe", "returned", "premature", "done", "reset"}
              \cup GaveUp
Kinds  == [slow : 0 .. MaxSlow, ahead : 0 .. MaxAhead, torn : 0 .. MaxTorn, crash : 0 .. MaxCrash]

Types ==
    /\ status \in [Sides -> Ways]
    /\ pending \in [Sides -> SUBSET {"urg", "alrm"}]
    /\ stack \in [Sides -> Stacks]
    /\ nprobes \in [Sides -> 0 .. MaxProbes]
    /\ loaded \in [Sides -> 0 .. MaxProbes]
    /\ net \in [Sides -> Seq(Items)]
    /\ rcv \in [Sides -> Seq({"line", "stray", "fin"})]
    /\ urg \in [Sides -> {"none", "coming", "valid"}]
    /\ rst \in [Sides -> BOOLEAN]
    /\ stdineof \in BOOLEAN /\ typed \in 0 .. Lines
    /\ out \in Seq({"line", "stray"})
    /\ faults \in Kinds

In(p, handler) == Contains(stack[p], handler)

\* A process that ended handles no signal, and the alarm is set again only when its
\* handler returns.
Quiet == \A p \in Sides :
    /\ ~Up(p) => pending[p] = {} /\ stack[p] = <<>>
    /\ ~("alrm" \in pending[p] /\ In(p, "alrm"))

\* After the end of file comes at most a reset, and it comes from a side that ended
\* or has shut its half of the connection.
FinLast(s) == \A j, k \in DOMAIN s : j < k /\ s[j] = "fin" => s[k] = "rst"

AllRst(s) == \A k \in DOMAIN s : s[k] = "rst"

EofLast(s) == \A j \in DOMAIN s : s[j] = "fin" => j = Len(s)

Gone(p) == ~Up(p) \/ FinSent(p)

Fins == \A p \in Sides :
    /\ FinLast(net[p]) /\ EofLast(rcv[p])
    /\ Contains(rcv[p], "fin") => AllRst(net[p])
    /\ Contains(rcv[p], "fin") \/ Contains(net[p], "fin") => Gone(Peer(p))

Form == Types /\ Quiet /\ Fins

-----------------------------------------------------------------------------
(* Streams and stacks *)

LEMMA AfterConcat ==
  ASSUME NEW S, NEW s \in Seq(S), NEW t \in Seq(S)
  PROVE  \A x : Contains(s \o t, x) <=> Contains(s, x) \/ Contains(t, x)
<1>1. /\ Len(s) \in Nat /\ Len(t) \in Nat /\ Len(s \o t) = Len(s) + Len(t)
      /\ \A k \in 1 .. Len(s) : (s \o t)[k] = s[k]
      /\ \A k \in 1 .. Len(t) : (s \o t)[Len(s) + k] = t[k]
  OBVIOUS
<1>2. \A k \in 1 .. Len(s) + Len(t) :
         \/ k \in 1 .. Len(s)
         \/ k - Len(s) \in 1 .. Len(t) /\ k = Len(s) + (k - Len(s))
  BY <1>1
<1>3. /\ \A k \in 1 .. Len(s) : k \in 1 .. Len(s) + Len(t)
      /\ \A k \in 1 .. Len(t) : Len(s) + k \in 1 .. Len(s) + Len(t)
  BY <1>1
<1> QED
  BY <1>1, <1>2, <1>3 DEF Contains

LEMMA AfterAppend ==
  ASSUME NEW S, NEW s \in Seq(S), NEW y \in S
  PROVE  /\ Append(s, y) \in Seq(S)
         /\ \A x : Contains(Append(s, y), x) <=> Contains(s, x) \/ x = y
<1>1. Len(s) \in Nat /\ Append(s, y) \in Seq(S) /\ Len(Append(s, y)) = Len(s) + 1
      /\ \A k \in 1 .. Len(s) : Append(s, y)[k] = s[k]
      /\ Append(s, y)[Len(s) + 1] = y
  OBVIOUS
<1> QED
  BY <1>1 DEF Contains

LEMMA AfterTail ==
  ASSUME NEW S, NEW s \in Seq(S), s # <<>>
  PROVE  /\ Head(s) \in S /\ Tail(s) \in Seq(S)
         /\ \A x : Contains(s, x) <=> Head(s) = x \/ Contains(Tail(s), x)
<1>1. /\ Len(s) \in Nat \ {0} /\ Len(Tail(s)) = Len(s) - 1
      /\ Head(s) = s[1] /\ Head(s) \in S /\ Tail(s) \in Seq(S)
      /\ \A k \in 1 .. Len(s) - 1 : Tail(s)[k] = s[k + 1]
  OBVIOUS
<1>2. \A k \in 1 .. Len(s) : k # 1 => k - 1 \in 1 .. Len(s) - 1 /\ k = (k - 1) + 1
  BY <1>1
<1>4. \A k \in 1 .. Len(s) : k # 1 => s[k] = Tail(s)[k - 1]
  BY <1>1, <1>2
<1>3. \A k \in 1 .. Len(s) - 1 : k + 1 \in 1 .. Len(s)
  BY <1>1
<1> QED
  BY <1>1, <1>2, <1>3, <1>4 DEF Contains

LEMMA Pairs ==
  ASSUME NEW S, NEW s \in Seq(S), NEW t \in Seq(S), Len(s) = 2, Len(t) = 2,
         s[1] = t[1], s[2] = t[2]
  PROVE  s = t
<1>1. \A i \in 1 .. 2 : i = 1 \/ i = 2
  OBVIOUS
<1>2. \A i \in 1 .. Len(s) : s[i] = t[i]
  BY <1>1
<1> QED
  BY <1>2, SeqEqual

LEMMA Pair ==
  ASSUME NEW S, NEW a \in S, NEW b \in S
  PROVE  <<a>> \o <<b>> = <<a, b>>
<1>1. <<a>> \in Seq(S) /\ Len(<<a>>) = 1 /\ <<a>>[1] = a
  OBVIOUS
<1>2. <<a, b>> \in Seq(S) /\ Len(<<a, b>>) = 2 /\ <<a, b>>[1] = a /\ <<a, b>>[2] = b
  OBVIOUS
<1>3. Append(<<a>>, b) \in Seq(S) /\ Len(Append(<<a>>, b)) = 2
      /\ Append(<<a>>, b)[1] = a /\ Append(<<a>>, b)[2] = b
  BY <1>1, AppendProperties
<1>4. Append(<<a>>, b) = <<a, b>>
  BY <1>2, <1>3, Pairs
<1> QED
  BY <1>1, <1>4, AppendIsConcat

LEMMA StackForms ==
  ASSUME NEW s \in Stacks
  PROVE  /\ Contains(s, "urg") <=> s \in {<<"urg">>, <<"urg", "alrm">>, <<"alrm", "urg">>}
         /\ Contains(s, "alrm") <=> s \in {<<"alrm">>, <<"urg", "alrm">>, <<"alrm", "urg">>}
<1>1. CASE s = <<>>
  BY <1>1 DEF Contains
<1>2. CASE s = <<"urg">>
  BY <1>2 DEF Contains
<1>3. CASE s = <<"alrm">>
  BY <1>3 DEF Contains
<1>4. CASE s = <<"urg", "alrm">>
  BY <1>4 DEF Contains
<1>5. CASE s = <<"alrm", "urg">>
  BY <1>5 DEF Contains
<1> QED
  BY <1>1, <1>2, <1>3, <1>4, <1>5 DEF Stacks

LEMMA Pushed ==
  ASSUME NEW s \in Stacks, NEW h \in {"urg", "alrm"}, ~Contains(s, h)
  PROVE  /\ <<h>> \o s \in Stacks
         /\ \A x \in {"urg", "alrm"} : Contains(<<h>> \o s, x) <=> x = h \/ Contains(s, x)
         /\ <<h>> \o s = <<"urg", "alrm">> => h = "urg" /\ Contains(s, "alrm")
<1>1. s \in {<<>>, IF h = "urg" THEN <<"alrm">> ELSE <<"urg">>}
  BY StackForms DEF Stacks
<1>2. <<"urg">> \o <<"alrm">> = <<"urg", "alrm">> /\ <<"alrm">> \o <<"urg">> = <<"alrm", "urg">>
      /\ <<"urg">> \o <<>> = <<"urg">> /\ <<"alrm">> \o <<>> = <<"alrm">>
  <2>1. <<"urg">> \o <<"alrm">> = <<"urg", "alrm">> /\ <<"alrm">> \o <<"urg">> = <<"alrm", "urg">>
    <3>1. "urg" \in {"urg", "alrm"} /\ "alrm" \in {"urg", "alrm"}
      OBVIOUS
    <3> QED
      BY <3>1, Pair
  <2>2. <<"urg">> \in Seq({"urg", "alrm"}) /\ <<"alrm">> \in Seq({"urg", "alrm"})
    OBVIOUS
  <2> QED
    BY <2>1, <2>2, ConcatEmptySeq
<1>3. <<h>> \o s = IF s = <<>> THEN <<h>> ELSE IF h = "urg" THEN <<"urg", "alrm">> ELSE <<"alrm", "urg">>
  BY <1>1, <1>2
<1>4. <<h>> \o s \in Stacks
  BY <1>3 DEF Stacks
<1>5. \A x \in {"urg", "alrm"} : Contains(s, x) <=> s # <<>> /\ x # h
  BY <1>1, StackForms
<1>6. \A x \in {"urg", "alrm"} : Contains(<<h>> \o s, x) <=> x = h \/ Contains(s, x)
  <2>1. CASE s = <<>> /\ h = "urg"
    BY <2>1, <1>3, <1>4, <1>5, StackForms
  <2>2. CASE s = <<>> /\ h = "alrm"
    BY <2>2, <1>3, <1>4, <1>5, StackForms
  <2>3. CASE s # <<>> /\ h = "urg"
    BY <2>3, <1>3, <1>4, <1>5, StackForms
  <2>4. CASE s # <<>> /\ h = "alrm"
    BY <2>4, <1>3, <1>4, <1>5, StackForms
  <2> QED
    BY <2>1, <2>2, <2>3, <2>4
<1>7. <<h>> \o s = <<"urg", "alrm">> => h = "urg" /\ Contains(s, "alrm")
  <2>1. <<h>> # <<"urg", "alrm">> /\ <<"alrm", "urg">> # <<"urg", "alrm">>
    OBVIOUS
  <2> QED
    BY <2>1, <1>3, <1>5
<1> QED
  BY <1>4, <1>6, <1>7

LEMMA Popped ==
  ASSUME NEW s \in Stacks, s # <<>>
  PROVE  /\ Tail(s) \in Stacks /\ Head(s) \in {"urg", "alrm"} /\ Contains(s, Head(s))
         /\ \A x \in {"urg", "alrm"} : Contains(Tail(s), x) <=> x # Head(s) /\ Contains(s, x)
         /\ Tail(s) # <<"urg", "alrm">>
         /\ Contains(s, "alrm") /\ Head(s) = "urg" => s = <<"urg", "alrm">>
<1>1. CASE s = <<"urg">>
  BY <1>1, StackForms DEF Stacks
<1>2. CASE s = <<"alrm">>
  BY <1>2, StackForms DEF Stacks
<1>3. CASE s = <<"urg", "alrm">>
  BY <1>3, StackForms DEF Stacks
<1>4. CASE s = <<"alrm", "urg">>
  BY <1>4, StackForms DEF Stacks
<1> QED
  BY <1>1, <1>2, <1>3, <1>4 DEF Stacks
-----------------------------------------------------------------------------
(* The types, and the order of what is in flight *)

LEMMA TwoSides ==
  /\ Sides = {"cli", "srv"} /\ Peer("cli") = "srv" /\ Peer("srv") = "cli"
  /\ \A p \in Sides : Peer(p) \in Sides /\ Peer(p) # p /\ Peer(Peer(p)) = p
  /\ \A p, q \in Sides : q = p \/ q = Peer(p)
BY DEF Sides, Peer

\* Nothing more comes from a side that is not gone before it sends its last.
LEMMA StillComing ==
  ASSUME Form, NEW p \in Sides, ~Gone(Peer(p)), NEW t \in Seq(Items \ {"fin", "rst"})
  PROVE  /\ net[p] \o t \in Seq(Items)
         /\ FinLast(net[p] \o t) /\ ~Contains(net[p] \o t, "fin")
         /\ ~Contains(rcv[p], "fin")
<1>1. net[p] \in Seq(Items) /\ t \in Seq(Items)
  BY DEF Form, Types
<1>2. ~Contains(net[p], "fin") /\ ~Contains(rcv[p], "fin")
  BY DEF Form, Fins
<1>3. ~Contains(t, "fin")
  <2>1. \A k \in 1 .. Len(t) : t[k] \in Items \ {"fin", "rst"}
    BY ElementOfSeq
  <2> QED
    BY <2>1 DEF Contains
<1>4. ~Contains(net[p] \o t, "fin")
  BY <1>1, <1>2, <1>3, AfterConcat
<1>5. net[p] \o t \in Seq(Items)
  BY <1>1
<1>6. DOMAIN (net[p] \o t) = 1 .. Len(net[p] \o t)
  BY <1>5
<1> QED
  BY <1>2, <1>4, <1>5, <1>6 DEF FinLast, Contains

LEMMA LastComes ==
  ASSUME NEW s \in Seq(Items), FinLast(s), NEW x \in {"fin", "rst"},
         x = "fin" => ~Contains(s, "fin")
  PROVE  /\ Append(s, x) \in Seq(Items) /\ FinLast(Append(s, x))
         /\ x = "rst" => /\ Contains(Append(s, x), "fin") <=> Contains(s, "fin")
                         /\ AllRst(s) => AllRst(Append(s, x))
<1>1. /\ Len(s) \in Nat /\ Append(s, x) \in Seq(Items) /\ Len(Append(s, x)) = Len(s) + 1
      /\ DOMAIN s = 1 .. Len(s) /\ DOMAIN Append(s, x) = 1 .. Len(s) + 1
      /\ \A k \in 1 .. Len(s) : Append(s, x)[k] = s[k]
      /\ Append(s, x)[Len(s) + 1] = x
  BY DEF Items
<1>2. \A j, k \in 1 .. Len(s) + 1 : j < k => j \in 1 .. Len(s)
  BY <1>1
<1>3. \A k \in 1 .. Len(s) + 1 : k \in 1 .. Len(s) \/ k = Len(s) + 1
  BY <1>1
<1>4. FinLast(Append(s, x))
  BY <1>1, <1>2, <1>3 DEF FinLast, Contains
<1>5. x = "rst" /\ AllRst(s) => AllRst(Append(s, x))
  BY <1>1, <1>3 DEF AllRst
<1> QED
  BY <1>1, <1>4, <1>5, AfterAppend DEF Items

LEMMA FirstArrives ==
  ASSUME NEW s \in Seq(Items), s # <<>>, FinLast(s)
  PROVE  /\ Tail(s) \in Seq(Items) /\ FinLast(Tail(s))
         /\ Head(s) = "fin" => AllRst(Tail(s))
         /\ AllRst(s) => Head(s) = "rst" /\ AllRst(Tail(s))
<1>1. /\ Len(s) \in Nat \ {0} /\ Len(Tail(s)) = Len(s) - 1
      /\ Head(s) = s[1] /\ Tail(s) \in Seq(Items)
      /\ DOMAIN s = 1 .. Len(s) /\ DOMAIN Tail(s) = 1 .. Len(s) - 1
      /\ \A k \in 1 .. Len(s) - 1 : Tail(s)[k] = s[k + 1]
  OBVIOUS
<1>2. \A k \in 1 .. Len(s) - 1 : k + 1 \in 1 .. Len(s) /\ 1 < k + 1
  BY <1>1
<1>3. \A j, k \in 1 .. Len(s) - 1 : j < k => j + 1 < k + 1
  BY <1>1
<1>4. 1 \in 1 .. Len(s)
  BY <1>1
<1>5. FinLast(Tail(s))
  BY <1>1, <1>2, <1>3 DEF FinLast
<1>6. Head(s) = "fin" => AllRst(Tail(s))
  BY <1>1, <1>2, <1>4 DEF FinLast, AllRst
<1>7. AllRst(s) => Head(s) = "rst" /\ AllRst(Tail(s))
  BY <1>1, <1>2, <1>4 DEF AllRst
<1> QED
  BY <1>1, <1>5, <1>6, <1>7

LEMMA EndForm ==
  ASSUME Form, NEW p \in Sides, NEW how \in Ways \ {"up"}, Up(p), End(p, how),
         UNCHANGED <<stdineof, out, faults>>, typed' \in 0 .. Lines
  PROVE  Form'
<1>1. Types
  BY DEF Form
<1>2. \A q \in Sides : net[q] \in Seq(Items) /\ FinLast(net[q])
  BY DEF Form, Types, Fins
<1>3. Peer(p) \in Sides /\ Peer(p) # p /\ Peer(Peer(p)) = p /\ \A q \in Sides : q = p \/ q = Peer(p)
  BY TwoSides
<1>4. ~FinSent(p) => ~Contains(net[Peer(p)], "fin") /\ ~Contains(rcv[Peer(p)], "fin")
  BY <1>3 DEF Form, Fins, Gone
<1>5. PICK x \in {"fin", "rst"} :
        /\ net' = net \/ net' = [net EXCEPT ![Peer(p)] = Append(@, x)]
        /\ x = "fin" => net' = net \/ ~FinSent(p)
  BY DEF End
<1>6. /\ net'[p] = net[p]
      /\ \/ net'[Peer(p)] = net[Peer(p)]
         \/ net'[Peer(p)] = Append(net[Peer(p)], x) /\ (x = "fin" => ~FinSent(p))
  <2>1. DOMAIN net = Sides
    BY <1>1 DEF Types
  <2>2. CASE net' = net
    BY <2>2
  <2>3. CASE net' # net /\ net' = [net EXCEPT ![Peer(p)] = Append(@, x)]
    BY <2>1, <2>3, <1>3, <1>5
  <2> QED
    BY <2>2, <2>3, <1>5
<1>7. net' \in [Sides -> Seq(Items)]
  <2>1. Append(net[Peer(p)], x) \in Seq(Items)
    BY <1>2, <1>3, AfterAppend DEF Items
  <2> QED
    BY <2>1, <1>1, <1>5 DEF Types
<1>8. status' = [status EXCEPT ![p] = how] /\ pending' = [pending EXCEPT ![p] = {}]
      /\ stack' = [stack EXCEPT ![p] = <<>>] /\ rcv' = [rcv EXCEPT ![p] = <<>>]
      /\ nprobes' = [nprobes EXCEPT ![p] = 0] /\ loaded' = [loaded EXCEPT ![p] = 0]
      /\ urg' = urg /\ rst' = rst
  BY DEF End
<1>9. Types'
  <2>1. status' \in [Sides -> Ways] /\ pending' \in [Sides -> SUBSET {"urg", "alrm"}]
    BY <1>1, <1>8 DEF Types
  <2>2. stack' \in [Sides -> Stacks]
    BY <1>1, <1>8 DEF Types, Stacks
  <2>3. rcv' \in [Sides -> Seq({"line", "stray", "fin"})]
    <3>1. <<>> \in Seq({"line", "stray", "fin"})
      OBVIOUS
    <3> QED
      BY <3>1, <1>1, <1>8 DEF Types
  <2>4. nprobes' \in [Sides -> 0 .. MaxProbes] /\ loaded' \in [Sides -> 0 .. MaxProbes]
    <3>1. 0 \in 0 .. MaxProbes
      BY SizesAssumption
    <3> QED
      BY <3>1, <1>1, <1>8 DEF Types
  <2> QED
    BY <1>1, <1>7, <1>8, <2>1, <2>2, <2>3, <2>4 DEF Types
<1>10. Quiet'
  <2>1. ~Contains(<<>>, "alrm")
    BY DEF Contains
  <2> QED
    BY <2>1, <1>1, <1>3, <1>8 DEF Form, Types, Quiet, Up, In
<1>11. Fins'
  <2>1. \A q \in Sides : Gone(q) => Gone(q)'
    BY <1>1, <1>8 DEF Types, Gone, Up, FinSent
  <2>2. Gone(p)'
    BY <1>1, <1>8 DEF Types, Gone, Up, Ways
  <2>3. rcv'[p] = <<>> /\ rcv'[Peer(p)] = rcv[Peer(p)]
    BY <1>1, <1>3, <1>8 DEF Types
  <2>4. ~Contains(<<>>, "fin") /\ EofLast(<<>>)
    BY DEF Contains, EofLast
  <2>5. /\ FinLast(net'[p]) /\ EofLast(rcv'[p]) /\ (Contains(rcv'[p], "fin") => AllRst(net'[p]))
        /\ Contains(rcv'[p], "fin") \/ Contains(net'[p], "fin") => Gone(Peer(p))'
    BY <1>3, <1>6, <2>1, <2>3, <2>4 DEF Form, Fins
  <2>6. /\ FinLast(net'[Peer(p)])
        /\ Contains(rcv[Peer(p)], "fin") => AllRst(net'[Peer(p)])
    <3> DEFINE s == net[Peer(p)]
    <3>1. s \in Seq(Items) /\ FinLast(s) /\ (Contains(rcv[Peer(p)], "fin") => AllRst(s))
      BY <1>2, <1>3 DEF Form, Fins
    <3>2. \/ net'[Peer(p)] = s
          \/ net'[Peer(p)] = Append(s, x) /\ (x = "fin" => ~FinSent(p))
      BY <1>6
    <3>3. ~FinSent(p) => ~Contains(s, "fin") /\ ~Contains(rcv[Peer(p)], "fin")
      BY <1>4
    <3> HIDE DEF s
    <3>4. CASE net'[Peer(p)] = s
      BY <3>1, <3>4
    <3>5. CASE net'[Peer(p)] = Append(s, x) /\ x = "rst"
      BY <3>1, <3>5, LastComes
    <3>6. CASE net'[Peer(p)] = Append(s, x) /\ x = "fin" /\ ~FinSent(p)
      BY <3>1, <3>3, <3>6, LastComes
    <3> QED
      BY <3>2, <3>4, <3>5, <3>6
  <2>8. EofLast(rcv[Peer(p)])
    BY <1>3 DEF Form, Fins
  <2> QED
    BY <1>3, <2>2, <2>3, <2>5, <2>6, <2>8 DEF Fins
<1> QED
  BY <1>9, <1>10, <1>11 DEF Form
LEMMA SameStreams ==
  ASSUME Form, net' = net, rcv' = rcv, \A q \in Sides : Gone(q) => Gone(q)'
  PROVE  Fins'
BY TwoSides DEF Form, Fins

LEMMA Sending ==
  ASSUME Form, NEW p \in Sides, ~Gone(p), NEW t \in Seq(Items \ {"fin", "rst"}), Send(p, t),
         \A q \in Sides : Gone(q) => Gone(q)',
         \A q \in Sides : /\ EofLast(rcv'[q])
                          /\ Contains(rcv'[q], "fin") => Contains(rcv[q], "fin")
  PROVE  /\ net' \in [Sides -> Seq(Items)] /\ Fins'
         /\ net'[p] = net[p] /\ net'[Peer(p)] = net[Peer(p)] \o t
<1>1. Peer(p) \in Sides /\ Peer(p) # p /\ Peer(Peer(p)) = p /\ \A q \in Sides : q = p \/ q = Peer(p)
  BY TwoSides
<1>2. /\ net[Peer(p)] \o t \in Seq(Items) /\ FinLast(net[Peer(p)] \o t)
      /\ ~Contains(net[Peer(p)] \o t, "fin") /\ ~Contains(rcv[Peer(p)], "fin")
  BY <1>1, StillComing
<1>3. net \in [Sides -> Seq(Items)]
  BY DEF Form, Types
<1>4. net' = [net EXCEPT ![Peer(p)] = @ \o t]
  BY DEF Send
<1>5. net'[p] = net[p] /\ net'[Peer(p)] = net[Peer(p)] \o t /\ net' \in [Sides -> Seq(Items)]
  BY <1>1, <1>2, <1>3, <1>4
<1>6. /\ FinLast(net[p]) /\ (Contains(rcv[p], "fin") => AllRst(net[p]))
      /\ Contains(rcv[p], "fin") \/ Contains(net[p], "fin") => Gone(Peer(p))
  BY DEF Form, Fins
<1>7. Fins'
  BY <1>1, <1>2, <1>5, <1>6 DEF Fins
<1> QED
  BY <1>5, <1>7

LEMMA Narrowed ==
  ASSUME NEW S, NEW T, NEW s \in Seq(S), \A k \in 1 .. Len(s) : s[k] \in T
  PROVE  s \in Seq(T)
<1>1. Len(s) \in Nat /\ SubSeq(s, 1, Len(s)) = s
  BY SubSeqFull, LenProperties
<1>2. 1 \in Int /\ Len(s) \in Int
  BY <1>1
<1> QED
  BY <1>1, <1>2, SubSeqProperties

LEMMA Taken ==
  ASSUME Form, NEW p \in Sides, Take(p)
  PROVE  /\ rcv' \in [Sides -> Seq({"line", "stray", "fin"})]
         /\ Data(p) \in Seq({"line", "stray"})
         /\ \A x : Contains(Data(p), x) => Contains(rcv[p], x)
         /\ \A q \in Sides : /\ EofLast(rcv'[q])
                             /\ \A x : Contains(rcv'[q], x) => Contains(rcv[q], x)
<1> DEFINE s == rcv[p]
           r == IF Contains(s, "fin") THEN <<"fin">> ELSE <<>>
<1>1. /\ s \in Seq({"line", "stray", "fin"}) /\ EofLast(s)
      /\ rcv \in [Sides -> Seq({"line", "stray", "fin"})]
  BY DEF Form, Types, Fins
<1>2. /\ Len(s) \in Nat /\ DOMAIN s = 1 .. Len(s)
      /\ \A k \in 1 .. Len(s) : s[k] \in {"line", "stray", "fin"}
  BY <1>1, LenProperties, ElementOfSeq
<1>3. /\ Data(p) \in Seq({"line", "stray"})
      /\ \A x : Contains(Data(p), x) => Contains(s, x)
  <2>1. CASE ~Contains(s, "fin")
    <3>1. Data(p) = s
      BY <2>1 DEF Data
    <3>2. \A k \in 1 .. Len(s) : s[k] \in {"line", "stray"}
      BY <1>2, <2>1 DEF Contains
    <3>3. s \in Seq({"line", "stray"})
      <4> HIDE DEF s
      <4> QED
        BY <1>1, <3>2, Narrowed
    <3> QED
      BY <3>1, <3>3
  <2>2. CASE Contains(s, "fin")
    <3>1. Data(p) = SubSeq(s, 1, Len(s) - 1)
      BY <2>2 DEF Data, Front
    <3>2. Len(s) >= 1
      BY <1>2, <2>2 DEF Contains
    <3>3. \A k \in 1 .. Len(s) - 1 : k \in 1 .. Len(s) /\ s[k] \in {"line", "stray"}
      BY <1>1, <1>2 DEF EofLast
    <3>4. /\ SubSeq(s, 1, Len(s) - 1) \in Seq({"line", "stray"})
          /\ Len(SubSeq(s, 1, Len(s) - 1)) = Len(s) - 1
          /\ \A i \in 1 .. Len(s) - 1 : SubSeq(s, 1, Len(s) - 1)[i] = s[i]
      <4> DEFINE n == Len(s) - 1
      <4>1. n \in Nat
        BY <1>2, <3>2
      <4>2. \A i \in 1 .. n : s[i] \in {"line", "stray"}
        BY <3>3
      <4>3. 1 \in Int /\ n \in Int /\ n - 1 + 1 = n /\ \A i \in 1 .. n : 1 + i - 1 = i
        BY <4>1
      <4> HIDE DEF n, s
      <4>4. /\ SubSeq(s, 1, n) \in Seq({"line", "stray"})
            /\ Len(SubSeq(s, 1, n)) = IF 1 <= n THEN n - 1 + 1 ELSE 0
            /\ \A i \in 1 .. n - 1 + 1 : SubSeq(s, 1, n)[i] = s[1 + i - 1]
        BY <4>2, <4>3, SubSeqProperties
      <4>5. Len(SubSeq(s, 1, n)) = n /\ \A i \in 1 .. n : SubSeq(s, 1, n)[i] = s[i]
        BY <4>1, <4>3, <4>4
      <4> QED
        BY <4>4, <4>5 DEF n
    <3> QED
      BY <3>1, <3>3, <3>4 DEF Contains
  <2> QED
    BY <2>1, <2>2
<1>4. /\ r \in Seq({"line", "stray", "fin"}) /\ EofLast(r)
      /\ \A x : Contains(r, x) => Contains(s, x)
  <2>1. <<>> \in Seq({"line", "stray", "fin"}) /\ EofLast(<<>>) /\ \A x : ~Contains(<<>>, x)
    BY DEF EofLast, Contains
  <2>2. <<"fin">> \in Seq({"line", "stray", "fin"}) /\ Len(<<"fin">>) = 1 /\ <<"fin">>[1] = "fin"
    OBVIOUS
  <2>3. EofLast(<<"fin">>) /\ \A x : Contains(<<"fin">>, x) => x = "fin"
    BY <2>2 DEF EofLast, Contains
  <2> QED
    BY <2>1, <2>2, <2>3
<1>5. rcv' = [rcv EXCEPT ![p] = r]
  BY DEF Take
<1>6. \A q \in Sides : EofLast(rcv[q])
  BY DEF Form, Fins
<1> HIDE DEF r
<1>7. rcv' \in [Sides -> Seq({"line", "stray", "fin"})]
  BY <1>1, <1>4, <1>5
<1>8. \A q \in Sides : /\ EofLast(rcv'[q])
                       /\ \A x : Contains(rcv'[q], x) => Contains(rcv[q], x)
  BY <1>1, <1>4, <1>5, <1>6
<1> QED
  BY <1>3, <1>7, <1>8
LEMMA Faulted ==
  ASSUME Types, NEW kind \in {"slow", "ahead", "torn", "crash"}, Fault(kind)
  PROVE  /\ faults' \in Kinds
         /\ faults'.slow = IF kind = "slow" THEN faults.slow + 1 ELSE faults.slow
         /\ faults'.torn = IF kind = "torn" THEN faults.torn + 1 ELSE faults.torn
         /\ faults'.ahead = IF kind = "ahead" THEN faults.ahead + 1 ELSE faults.ahead
         /\ faults'.crash = IF kind = "crash" THEN faults.crash + 1 ELSE faults.crash
<1>1. faults \in Kinds /\ faults[kind] < Bound[kind] /\ faults' = [faults EXCEPT ![kind] = @ + 1]
  BY DEF Types, Fault
<1>2. MaxSlow \in Nat /\ MaxAhead \in Nat /\ MaxTorn \in Nat /\ MaxCrash \in Nat
  BY FaultsAssumption
<1>3. CASE kind = "slow"
  BY <1>1, <1>2, <1>3 DEF Bound, Kinds
<1>4. CASE kind = "ahead"
  BY <1>1, <1>2, <1>4 DEF Bound, Kinds
<1>5. CASE kind = "torn"
  BY <1>1, <1>2, <1>5 DEF Bound, Kinds
<1>6. CASE kind = "crash"
  BY <1>1, <1>2, <1>6 DEF Bound, Kinds
<1> QED
  BY <1>3, <1>4, <1>5, <1>6

LEMMA SigUrgForm ==
  ASSUME Form, NEW p \in Sides, SigUrg(p)
  PROVE  Form'
<1>1. Types /\ Up(p) /\ stack[p] \in Stacks /\ stack[p] # <<>>
  BY DEF Form, Types, SigUrg, Running
<1>2. \A how : End(p, how) /\ how \in {"recv_error", "sigpipe"} => Form'
  <2>1. UNCHANGED <<stdineof, out, faults>> /\ typed' \in 0 .. Lines
    BY <1>1 DEF SigUrg, cli, Types
  <2> QED
    BY <1>1, <2>1, EndForm DEF Ways
<1>3. CASE urg[p] # "none" /\ ~(p = "srv" /\ ~MaySend(p))
  <2>1. /\ stack' = [stack EXCEPT ![p] = Tail(@)] /\ UNCHANGED <<status, pending>>
        /\ nprobes' = [nprobes EXCEPT ![p] = 0]
        /\ urg' = [urg EXCEPT ![p] = IF @ = "valid" THEN "none" ELSE @]
        /\ IF p = "srv" THEN Send(p, <<"probe">>) ELSE UNCHANGED net
        /\ UNCHANGED <<loaded, rcv, rst, stdineof, typed, out, faults>>
    BY <1>3 DEF SigUrg, Return, HeardFrom, cli
  <2>2. Tail(stack[p]) \in Stacks /\ \A x \in {"urg", "alrm"} : Contains(Tail(stack[p]), x) => Contains(stack[p], x)
    BY <1>1, Popped
  <2>3. \A q \in Sides : Gone(q) => Gone(q)'
    BY <2>1 DEF Gone, Up, FinSent
  <2>4. net' \in [Sides -> Seq(Items)] /\ Fins'
    <3>1. CASE p = "srv"
      <4>1. ~Gone(p)
        BY <1>1, <3>1 DEF Gone, FinSent
      <4>2. <<"probe">> \in Seq(Items \ {"fin", "rst"})
        BY DEF Items
      <4>3. \A q \in Sides : EofLast(rcv'[q]) /\ (Contains(rcv'[q], "fin") => Contains(rcv[q], "fin"))
        BY <2>1 DEF Form, Fins
      <4> QED
        BY <2>1, <2>3, <3>1, <4>1, <4>2, <4>3, Sending
    <3>2. CASE p # "srv"
      BY <1>1, <2>1, <2>3, <3>2, SameStreams DEF Types
    <3> QED
      BY <3>1, <3>2
  <2>5. stack' \in [Sides -> Stacks] /\ nprobes' \in [Sides -> 0 .. MaxProbes]
    <3>1. 0 \in 0 .. MaxProbes
      BY SizesAssumption
    <3> QED
      BY <1>1, <2>1, <2>2, <3>1 DEF Types
  <2>6. urg' \in [Sides -> {"none", "coming", "valid"}]
    BY <1>1, <2>1 DEF Types
  <2>7. Types'
    BY <1>1, <2>1, <2>4, <2>5, <2>6 DEF Types
  <2>8. Quiet'
    BY <1>1, <2>1, <2>2 DEF Form, Types, Quiet, Up, In
  <2> QED
    BY <2>4, <2>7, <2>8 DEF Form
<1> QED
  BY <1>2, <1>3 DEF SigUrg

LEMMA SigAlrmForm ==
  ASSUME Form, NEW p \in Sides, SigAlrm(p)
  PROVE  Form'
<1>1. Types /\ Up(p) /\ stack[p] \in Stacks /\ stack[p] # <<>>
  BY DEF Form, Types, SigAlrm, Running
<1>2. \A how : End(p, how) /\ how \in {"unreachable", "no_probes", "sigpipe"} => Form'
  <2>1. UNCHANGED <<stdineof, out, faults>> /\ typed' \in 0 .. Lines
    BY <1>1 DEF SigAlrm, cli, Types
  <2> QED
    BY <1>1, <2>1, EndForm DEF Ways, GaveUp
<1>3. CASE ~TooMany(Counted(p)) /\ ~(p = "cli" /\ ~MaySend(p))
  <2>1. /\ stack' = [stack EXCEPT ![p] = Tail(@)] /\ UNCHANGED <<status, pending>>
        /\ nprobes' = [nprobes EXCEPT ![p] = loaded[p] + 1] /\ loaded[p] + 1 <= MaxProbes
        /\ loaded' = [loaded EXCEPT ![p] = 0]
        /\ IF p = "cli" THEN Send(p, <<"probe">>) ELSE UNCHANGED net
        /\ UNCHANGED <<rcv, urg, rst, stdineof, typed, out, faults>>
    <3>1. ~(loaded[p] + 1 > MaxProbes) /\ loaded[p] \in Nat /\ MaxProbes \in Nat
      BY <1>1, <1>3, SizesAssumption DEF TooMany, Counted, Types
    <3> QED
      BY <1>3, <3>1 DEF SigAlrm, Return, Counted, cli
  <2>2. Tail(stack[p]) \in Stacks /\ \A x \in {"urg", "alrm"} : Contains(Tail(stack[p]), x) => Contains(stack[p], x)
    BY <1>1, Popped
  <2>3. \A q \in Sides : Gone(q) => Gone(q)'
    BY <2>1 DEF Gone, Up, FinSent
  <2>4. net' \in [Sides -> Seq(Items)] /\ Fins'
    <3>1. CASE p = "cli"
      <4>1. ~Gone(p)
        BY <1>1, <1>3, <3>1 DEF Gone, MaySend
      <4>2. <<"probe">> \in Seq(Items \ {"fin", "rst"})
        BY DEF Items
      <4>3. \A q \in Sides : EofLast(rcv'[q]) /\ (Contains(rcv'[q], "fin") => Contains(rcv[q], "fin"))
        BY <2>1 DEF Form, Fins
      <4> QED
        BY <2>1, <2>3, <3>1, <4>1, <4>2, <4>3, Sending
    <3>2. CASE p # "cli"
      BY <1>1, <2>1, <2>3, <3>2, SameStreams DEF Types
    <3> QED
      BY <3>1, <3>2
  <2>5. stack' \in [Sides -> Stacks]
    BY <1>1, <2>1, <2>2 DEF Types
  <2>6. nprobes' \in [Sides -> 0 .. MaxProbes] /\ loaded' \in [Sides -> 0 .. MaxProbes]
    <3>1. 0 \in 0 .. MaxProbes /\ loaded[p] + 1 \in 0 .. MaxProbes
      BY <1>1, <2>1, SizesAssumption DEF Types
    <3> QED
      BY <1>1, <2>1, <3>1 DEF Types
  <2>7. Types'
    BY <1>1, <2>1, <2>4, <2>5, <2>6 DEF Types
  <2>8. Quiet'
    BY <1>1, <2>1, <2>2 DEF Form, Types, Quiet, Up, In
  <2> QED
    BY <2>4, <2>7, <2>8 DEF Form
<1> QED
  BY <1>2, <1>3, TwoSides DEF SigAlrm
LEMMA DeliverForm ==
  ASSUME Form, NEW p \in Sides, Deliver(p)
  PROVE  Form'
<1> DEFINE s == net[p]
           item == Head(s)
<1>1. /\ Types /\ s \in Seq(Items) /\ s # <<>> /\ FinLast(s)
      /\ rcv[p] \in Seq({"line", "stray", "fin"}) /\ EofLast(rcv[p])
      /\ Contains(rcv[p], "fin") => AllRst(s)
      /\ Contains(rcv[p], "fin") \/ Contains(s, "fin") => Gone(Peer(p))
  BY DEF Form, Types, Fins, Deliver
<1>2. /\ net' = [net EXCEPT ![p] = Tail(@)]
      /\ UNCHANGED <<status, stack, nprobes, loaded, stdineof, typed, out, faults>>
  BY DEF Deliver, cli
<1>3. /\ item \in Items /\ Tail(s) \in Seq(Items) /\ FinLast(Tail(s))
      /\ item = "fin" => AllRst(Tail(s)) /\ Contains(s, "fin")
      /\ AllRst(s) => item = "rst" /\ AllRst(Tail(s))
      /\ Contains(Tail(s), "fin") => Contains(s, "fin")
  <2> HIDE DEF s
  <2>1. Head(s) \in Items /\ \A x : Contains(s, x) <=> Head(s) = x \/ Contains(Tail(s), x)
    BY <1>1, AfterTail
  <2> QED
    BY <1>1, <2>1, FirstArrives DEF s
<1>4. \A q \in Sides : Gone(q)' = Gone(q)
  BY <1>2 DEF Gone, Up, FinSent
<1>5. /\ urg' \in [Sides -> {"none", "coming", "valid"}] /\ rst' \in [Sides -> BOOLEAN]
      /\ pending' \in [Sides -> SUBSET {"urg", "alrm"}]
      /\ \A q \in Sides : /\ pending'[q] \subseteq pending[q] \cup {"urg"}
                          /\ ~Up(q) => pending'[q] = pending[q]
      /\ \/ rcv' = rcv
         \/ rcv' = [rcv EXCEPT ![p] = <<>>] /\ Up(p)
         \/ rcv' = [rcv EXCEPT ![p] = Append(@, "stray")] /\ item = "probe"
         \/ rcv' = [rcv EXCEPT ![p] = Append(@, item)] /\ item \in {"line", "stray", "fin"}
  <2>1. CASE ~Up(p) \/ rst[p]
    <3>1. /\ rst' = [rst EXCEPT ![Peer(p)] =
                 @ \/ (status[p] # "crashed" /\ item \in {"line", "probe", "stray"})]
          /\ UNCHANGED <<rcv, urg, pending>>
      BY <2>1 DEF Deliver
    <3>2. rst' \in [Sides -> BOOLEAN]
      BY <1>1, <3>1 DEF Types
    <3> QED
      BY <1>1, <3>1, <3>2 DEF Types
  <2>2. CASE Up(p) /\ ~rst[p] /\ item = "probe"
    <3>1. /\ urg' = [urg EXCEPT ![p] = "valid"]
          /\ pending' = [pending EXCEPT ![p] = IF urg[p] = "coming" THEN @ ELSE @ \cup {"urg"}]
          /\ IF urg[p] = "valid" THEN rcv' = [rcv EXCEPT ![p] = Append(@, "stray")]
                                 ELSE UNCHANGED rcv
          /\ UNCHANGED rst
      BY <2>2 DEF Deliver
    <3>2. urg' \in [Sides -> {"none", "coming", "valid"}]
      BY <1>1, <3>1 DEF Types
    <3>3. /\ pending' \in [Sides -> SUBSET {"urg", "alrm"}]
          /\ \A q \in Sides : pending'[q] \subseteq pending[q] \cup {"urg"}
          /\ \A q \in Sides : ~Up(q) => pending'[q] = pending[q]
      BY <1>1, <2>2, <3>1 DEF Types
    <3> QED
      BY <1>1, <2>2, <3>1, <3>2, <3>3 DEF Types
  <2>3. CASE Up(p) /\ ~rst[p] /\ item = "rst"
    <3>1. /\ rst' = [rst EXCEPT ![p] = TRUE] /\ rcv' = [rcv EXCEPT ![p] = <<>>]
          /\ UNCHANGED <<urg, pending>>
      BY <2>3 DEF Deliver
    <3> QED
      BY <1>1, <2>3, <3>1 DEF Types
  <2>4. CASE Up(p) /\ ~rst[p] /\ item \notin {"probe", "rst"}
    <3>1. rcv' = [rcv EXCEPT ![p] = Append(@, item)] /\ UNCHANGED <<urg, rst, pending>>
      BY <2>4 DEF Deliver
    <3>2. item \in {"line", "stray", "fin"}
      BY <1>3, <2>4 DEF Items
    <3> QED
      BY <1>1, <3>1, <3>2 DEF Types
  <2> QED
    BY <2>1, <2>2, <2>3, <2>4
<1>6. /\ rcv'[p] \in Seq({"line", "stray", "fin"}) /\ EofLast(rcv'[p])
      /\ Contains(rcv'[p], "fin") => AllRst(Tail(s)) /\ Gone(Peer(p))
      /\ rcv' = [rcv EXCEPT ![p] = rcv'[p]]
  <2>1. CASE rcv' = rcv
    BY <1>1, <1>3, <2>1 DEF Types
  <2>2. CASE rcv' = [rcv EXCEPT ![p] = <<>>]
    <3>1. <<>> \in Seq({"line", "stray", "fin"}) /\ EofLast(<<>>) /\ ~Contains(<<>>, "fin")
      BY DEF EofLast, Contains
    <3> QED
      BY <1>1, <2>2, <3>1 DEF Types
  <2>3. ASSUME NEW x \in {"line", "stray", "fin"}, rcv' = [rcv EXCEPT ![p] = Append(@, x)],
               item = x \/ (item = "probe" /\ x = "stray")
        PROVE  /\ rcv'[p] \in Seq({"line", "stray", "fin"}) /\ EofLast(rcv'[p])
               /\ Contains(rcv'[p], "fin") => AllRst(Tail(s)) /\ Gone(Peer(p))
               /\ rcv' = [rcv EXCEPT ![p] = rcv'[p]]
    <3>1. ~Contains(rcv[p], "fin")
      BY <1>1, <1>3, <2>3
    <3>2. /\ Append(rcv[p], x) \in Seq({"line", "stray", "fin"})
          /\ Contains(Append(rcv[p], x), "fin") <=> x = "fin"
      BY <1>1, <3>1, AfterAppend
    <3>3. EofLast(Append(rcv[p], x))
      <4> DEFINE r == rcv[p]
      <4>1. r \in Seq({"line", "stray", "fin"}) /\ ~Contains(r, "fin")
        BY <1>1, <3>1
      <4> HIDE DEF r
      <4>2. /\ Len(r) \in Nat /\ Len(Append(r, x)) = Len(r) + 1
            /\ DOMAIN Append(r, x) = 1 .. Len(r) + 1
            /\ \A k \in 1 .. Len(r) : Append(r, x)[k] = r[k]
        BY <4>1
      <4> QED
        BY <4>1, <4>2 DEF EofLast, Contains, r
    <3>4. rcv'[p] = Append(rcv[p], x)
      BY <1>1, <2>3 DEF Types
    <3>5. x = "fin" => AllRst(Tail(s)) /\ Gone(Peer(p))
      BY <1>1, <1>3, <2>3
    <3> QED
      BY <2>3, <3>2, <3>3, <3>4, <3>5
  <2> QED
    BY <1>5, <2>1, <2>2, <2>3
<1>7. net' \in [Sides -> Seq(Items)] /\ rcv' \in [Sides -> Seq({"line", "stray", "fin"})]
  BY <1>1, <1>2, <1>3, <1>6 DEF Types
<1>8. Types'
  BY <1>1, <1>2, <1>5, <1>7 DEF Types
<1>9. Quiet'
  BY <1>1, <1>2, <1>5 DEF Form, Quiet, Up, In
<1>10. Fins'
  <2>1. net'[p] = Tail(s) /\ \A q \in Sides : q # p => net'[q] = net[q] /\ rcv'[q] = rcv[q]
    BY <1>1, <1>2, <1>6 DEF Types
  <2>2. ASSUME NEW q \in Sides
        PROVE  /\ FinLast(net'[q]) /\ EofLast(rcv'[q])
               /\ Contains(rcv'[q], "fin") => AllRst(net'[q])
               /\ Contains(rcv'[q], "fin") \/ Contains(net'[q], "fin") => Gone(Peer(q))'
    <3>1. Gone(Peer(q))' = Gone(Peer(q))
      BY <1>4, TwoSides
    <3>2. CASE q = p
      BY <1>1, <1>3, <1>6, <2>1, <3>1, <3>2
    <3>3. CASE q # p
      BY <2>1, <3>1, <3>3 DEF Form, Fins
    <3> QED
      BY <3>2, <3>3
  <2> QED
    BY <2>2 DEF Fins
<1> QED
  BY <1>8, <1>9, <1>10 DEF Form
LEMMA LoopForm ==
  ASSUME Form,
         \/ CliRead \/ CliEof \/ CliType \/ CliShutdown \/ SrvRead \/ SrvEof
         \/ \E p \in Sides : ReadError(p)
  PROVE  Form'
<1> USE TwoSides
<1>1. Types
  BY DEF Form
<1>2. \A p \in Sides, how \in Ways \ {"up"} :
        Up(p) /\ End(p, how) /\ UNCHANGED <<stdineof, out, faults>> /\ typed' \in 0 .. Lines => Form'
  BY EndForm
<1>3. CASE CliRead
  <2>1. /\ UNCHANGED <<status, pending, stack, nprobes, loaded, net, urg, rst, stdineof, typed, faults>>
        /\ out' = out \o Data("cli") /\ Take("cli")
    BY <1>3 DEF CliRead, signals
  <2>2. /\ rcv' \in [Sides -> Seq({"line", "stray", "fin"})] /\ Data("cli") \in Seq({"line", "stray"})
        /\ \A q \in Sides : EofLast(rcv'[q]) /\ (Contains(rcv'[q], "fin") => Contains(rcv[q], "fin"))
    BY <2>1, Taken
  <2>3. out' \in Seq({"line", "stray"})
    BY <1>1, <2>1, <2>2 DEF Types
  <2>4. Types'
    BY <1>1, <2>1, <2>2, <2>3 DEF Types
  <2>5. Quiet'
    BY <2>1 DEF Form, Quiet, Up, In
  <2>6. \A q \in Sides : Gone(q)' = Gone(q)
    BY <2>1 DEF Gone, Up, FinSent
  <2>7. Fins'
    BY <2>1, <2>2, <2>6 DEF Form, Fins
  <2> QED
    BY <2>4, <2>5, <2>7 DEF Form
<1>4. CASE CliEof
  BY <1>1, <1>2, <1>4 DEF CliEof, InLoop, cli, Types, Ways
<1>5. CASE CliType
  <2>1. /\ InLoop("cli") /\ ~stdineof /\ typed < Lines /\ typed' = typed + 1
        /\ UNCHANGED <<stdineof, out, faults>>
    BY <1>5 DEF CliType
  <2>2. typed' \in 0 .. Lines
    BY <1>1, <2>1, SizesAssumption DEF Types
  <2>3. CASE ~MaySend("cli")
    BY <1>2, <1>5, <2>1, <2>2, <2>3 DEF CliType, InLoop, Ways
  <2>4. CASE MaySend("cli")
    <3>1. Send("cli", <<"line">>) /\ UNCHANGED <<status, pending, stack, nprobes, loaded, rcv, urg, rst>>
      BY <1>5, <2>4 DEF CliType, signals
    <3>2. <<"line">> \in Seq(Items \ {"fin", "rst"})
      BY DEF Items
    <3>3. ~Gone("cli") /\ \A q \in Sides : Gone(q) => Gone(q)'
      BY <2>1, <3>1 DEF Gone, FinSent, InLoop, Up
    <3>4. \A q \in Sides : EofLast(rcv'[q]) /\ (Contains(rcv'[q], "fin") => Contains(rcv[q], "fin"))
      BY <3>1 DEF Form, Fins
    <3>5. net' \in [Sides -> Seq(Items)] /\ Fins'
      BY <3>1, <3>2, <3>3, <3>4, Sending
    <3>6. Types'
      BY <1>1, <2>1, <2>2, <3>1, <3>5 DEF Types
    <3>7. Quiet'
      BY <3>1 DEF Form, Quiet, Up, In
    <3> QED
      BY <3>5, <3>6, <3>7 DEF Form
  <2> QED
    BY <2>3, <2>4
<1>6. CASE CliShutdown
  <2>1. /\ InLoop("cli") /\ ~stdineof /\ stdineof' = TRUE
        /\ net' = net \/ net' = [net EXCEPT !["srv"] = @ \o <<"fin">>]
        /\ UNCHANGED <<status, pending, stack, nprobes, loaded, rcv, urg, rst, typed, out, faults>>
    BY <1>6 DEF CliShutdown, Send, signals
  <2>2. /\ net["srv"] \in Seq(Items) /\ FinLast(net["srv"])
        /\ ~Contains(net["srv"], "fin") /\ ~Contains(rcv["srv"], "fin")
    BY <1>1, <2>1 DEF Form, Fins, Types, Gone, FinSent, InLoop
  <2>3. net["srv"] \o <<"fin">> = Append(net["srv"], "fin")
    BY <2>2, AppendIsConcat DEF Items
  <2>4. Append(net["srv"], "fin") \in Seq(Items) /\ FinLast(Append(net["srv"], "fin"))
    BY <2>2, LastComes
  <2>5. net' \in [Sides -> Seq(Items)] /\ FinLast(net'["srv"]) /\ net'["cli"] = net["cli"]
    <3>1. net \in [Sides -> Seq(Items)] /\ "srv" \in Sides /\ "cli" \in Sides
      BY <1>1 DEF Types
    <3>2. CASE net' = net
      BY <2>2, <3>1, <3>2
    <3>3. CASE net' = [net EXCEPT !["srv"] = Append(net["srv"], "fin")]
      <4>1. net'["srv"] = Append(net["srv"], "fin") /\ net'["cli"] = net["cli"]
        BY <3>1, <3>3
      <4>2. net' \in [Sides -> Seq(Items)]
        BY <2>4, <3>1, <3>3
      <4> QED
        BY <2>4, <4>1, <4>2
    <3> QED
      BY <2>1, <2>3, <3>2, <3>3
  <2>6. Types'
    BY <1>1, <2>1, <2>5 DEF Types
  <2>7. Quiet'
    BY <2>1 DEF Form, Quiet, Up, In
  <2>8. Gone("cli")' /\ Gone("srv")' = Gone("srv")
    BY <2>1 DEF Gone, FinSent, Up
  <2>9. Fins'
    BY <2>1, <2>2, <2>5, <2>8 DEF Form, Fins
  <2> QED
    BY <2>6, <2>7, <2>9 DEF Form
<1>7. CASE SrvRead
  <2>1. /\ InLoop("srv") /\ Send("srv", Data("srv")) /\ Take("srv")
        /\ UNCHANGED <<status, pending, stack, nprobes, loaded, urg, rst, stdineof, typed, out, faults>>
    BY <1>7 DEF SrvRead, signals, cli
  <2>2. /\ rcv' \in [Sides -> Seq({"line", "stray", "fin"})] /\ Data("srv") \in Seq({"line", "stray"})
        /\ \A q \in Sides : EofLast(rcv'[q]) /\ (Contains(rcv'[q], "fin") => Contains(rcv[q], "fin"))
    BY <2>1, Taken
  <2>3. Data("srv") \in Seq(Items \ {"fin", "rst"})
    BY <2>2, SeqMonotonic DEF Items
  <2>4. ~Gone("srv") /\ \A q \in Sides : Gone(q) => Gone(q)'
    BY <2>1 DEF Gone, FinSent, InLoop, Up
  <2>5. net' \in [Sides -> Seq(Items)] /\ Fins'
    BY <2>1, <2>2, <2>3, <2>4, Sending
  <2>6. Types'
    BY <1>1, <2>1, <2>2, <2>5 DEF Types
  <2>7. Quiet'
    BY <2>1 DEF Form, Quiet, Up, In
  <2> QED
    BY <2>5, <2>6, <2>7 DEF Form
<1>8. CASE SrvEof
  BY <1>1, <1>2, <1>8 DEF SrvEof, InLoop, cli, Types, Ways
<1>9. ASSUME NEW p \in Sides, ReadError(p)
      PROVE  Form'
  BY <1>1, <1>2, <1>9 DEF ReadError, InLoop, cli, Types, Ways
<1> QED
  BY <1>3, <1>4, <1>5, <1>6, <1>7, <1>8, <1>9

LEMMA EnterForm ==
  ASSUME Form, NEW p \in Sides, EnterUrg(p) \/ EnterAlrm(p)
  PROVE  Form'
<1>1. Types /\ stack[p] \in Stacks
  BY DEF Form, Types
<1>2. UNCHANGED <<status, nprobes, net, rcv, urg, rst, stdineof, typed, out>>
  BY DEF EnterUrg, EnterAlrm, tcp, cli
<1>3. faults' \in Kinds
  <2>1. faults' = faults \/ Fault("torn")
    BY DEF EnterUrg, EnterAlrm
  <2> QED
    BY <1>1, <2>1, Faulted DEF Types
<1>4. PICK h \in {"urg", "alrm"} :
        /\ h \in pending[p] /\ ~Contains(stack[p], h)
        /\ pending' = [pending EXCEPT ![p] = @ \ {h}]
        /\ stack' = [stack EXCEPT ![p] = <<h>> \o @]
        /\ loaded' = loaded \/ loaded' = [loaded EXCEPT ![p] = nprobes[p]]
  <2>1. CASE EnterUrg(p)
    BY <2>1 DEF EnterUrg
  <2>2. CASE EnterAlrm(p)
    <3>1. ~Contains(stack[p], "alrm")
      BY <2>2 DEF Form, Quiet, In, EnterAlrm
    <3> QED
      BY <2>2, <3>1 DEF EnterAlrm
  <2> QED
    BY <2>1, <2>2
<1>5. /\ <<h>> \o stack[p] \in Stacks
      /\ \A x \in {"urg", "alrm"} : Contains(<<h>> \o stack[p], x) <=> x = h \/ Contains(stack[p], x)
  BY <1>1, <1>4, Pushed
<1>6. /\ pending' \in [Sides -> SUBSET {"urg", "alrm"}] /\ stack' \in [Sides -> Stacks]
      /\ loaded' \in [Sides -> 0 .. MaxProbes]
  BY <1>1, <1>4, <1>5 DEF Types
<1>7. Types'
  BY <1>1, <1>2, <1>3, <1>6 DEF Types
<1>8. Up(p)
  BY <1>4 DEF Form, Quiet
<1>9. /\ pending'[p] = pending[p] \ {h} /\ stack'[p] = <<h>> \o stack[p]
      /\ \A q \in Sides : q # p => pending'[q] = pending[q] /\ stack'[q] = stack[q]
  BY <1>1, <1>4 DEF Types
<1>10. Quiet'
  <2>1. ~("alrm" \in pending'[p] /\ Contains(stack'[p], "alrm"))
    BY <1>4, <1>5, <1>9 DEF Form, Quiet, In
  <2>2. \A q \in Sides : Up(q)' = Up(q)
    BY <1>2 DEF Up
  <2> QED
    BY <1>8, <1>9, <2>1, <2>2 DEF Form, Quiet, In
<1>11. Fins'
  BY <1>2, SameStreams DEF Gone, Up, FinSent
<1> QED
  BY <1>7, <1>10, <1>11 DEF Form

LEMMA RestForm ==
  ASSUME Form, Tick \/ \E p \in Sides : Announce(p) \/ Skip(p) \/ Crash(p)
  PROVE  Form'
<1>1. Types
  BY DEF Form
<1>2. CASE Tick
  <2>1. /\ UNCHANGED <<status, stack, nprobes, loaded, net, rcv, urg, rst, stdineof, typed, out>>
        /\ pending' = [p \in Sides |-> IF Up(p) THEN pending[p] \cup {"alrm"} ELSE {}]
        /\ faults' = faults \/ Fault("slow")
        /\ \A p \in Sides : ~Contains(stack[p], "alrm")
    BY <1>2 DEF Tick, tcp, cli
  <2>2. pending' \in [Sides -> SUBSET {"urg", "alrm"}] /\ faults' \in Kinds
    BY <1>1, <2>1, Faulted DEF Types
  <2>3. Types'
    BY <1>1, <2>1, <2>2 DEF Types
  <2>4. Quiet'
    BY <2>1 DEF Form, Quiet, Up, In
  <2>5. Fins'
    BY <2>1, SameStreams DEF Gone, Up, FinSent
  <2> QED
    BY <2>3, <2>4, <2>5 DEF Form
<1>3. ASSUME NEW p \in Sides, Announce(p)
      PROVE  Form'
  <2>1. /\ UNCHANGED <<status, stack, nprobes, loaded, net, rcv, rst, stdineof, typed, out>>
        /\ urg' = [urg EXCEPT ![p] = "coming"] /\ Up(p)
        /\ pending' = [pending EXCEPT ![p] = @ \cup {"urg"}]
        /\ faults' \in Kinds
    BY <1>1, <1>3, Faulted DEF Announce, cli
  <2>2. pending' \in [Sides -> SUBSET {"urg", "alrm"}] /\ urg' \in [Sides -> {"none", "coming", "valid"}]
    BY <1>1, <2>1 DEF Types
  <2>3. Types'
    BY <1>1, <2>1, <2>2 DEF Types
  <2>4. Quiet'
    BY <1>1, <2>1 DEF Form, Types, Quiet, Up, In
  <2>5. Fins'
    BY <2>1, SameStreams DEF Gone, Up, FinSent
  <2> QED
    BY <2>3, <2>4, <2>5 DEF Form
<1>4. ASSUME NEW p \in Sides, Skip(p)
      PROVE  Form'
  <2>1. /\ UNCHANGED <<status, pending, stack, nprobes, loaded, net, rcv, rst, stdineof, typed, out, faults>>
        /\ urg' = [urg EXCEPT ![p] = "none"]
    BY <1>4 DEF Skip, signals, cli
  <2>2. Types'
    BY <1>1, <2>1 DEF Types
  <2>3. Quiet'
    BY <2>1 DEF Form, Quiet, Up, In
  <2>4. Fins'
    BY <2>1, SameStreams DEF Gone, Up, FinSent
  <2> QED
    BY <2>2, <2>3, <2>4 DEF Form
<1>5. ASSUME NEW p \in Sides, Crash(p)
      PROVE  Form'
  <2>1. /\ UNCHANGED <<net, rcv, urg, rst, stdineof, typed, out>>
        /\ status' = [status EXCEPT ![p] = "crashed"]
        /\ pending' = [pending EXCEPT ![p] = {}] /\ stack' = [stack EXCEPT ![p] = <<>>]
        /\ nprobes' = [nprobes EXCEPT ![p] = 0] /\ loaded' = [loaded EXCEPT ![p] = 0]
        /\ faults' \in Kinds
    BY <1>1, <1>5, Faulted DEF Crash, tcp, cli
  <2>2. 0 \in 0 .. MaxProbes
    BY SizesAssumption
  <2>3. status' \in [Sides -> Ways] /\ pending' \in [Sides -> SUBSET {"urg", "alrm"}]
    BY <1>1, <2>1 DEF Types, Ways
  <2>4. stack' \in [Sides -> Stacks]
    BY <1>1, <2>1 DEF Types, Stacks
  <2>5. nprobes' \in [Sides -> 0 .. MaxProbes] /\ loaded' \in [Sides -> 0 .. MaxProbes]
    BY <1>1, <2>1, <2>2 DEF Types
  <2>6. Types'
    BY <1>1, <2>1, <2>3, <2>4, <2>5 DEF Types
  <2>7. Quiet'
    BY <1>1, <2>1 DEF Form, Types, Quiet, Up, In, Contains
  <2>8. \A q \in Sides : Gone(q) => Gone(q)'
    BY <1>1, <2>1 DEF Gone, Up, FinSent, Types
  <2> QED
    BY <2>1, <2>6, <2>7, <2>8, SameStreams DEF Form
<1> QED
  BY <1>2, <1>3, <1>4, <1>5

LEMMA FormInit == Init => Form
<1> SUFFICES ASSUME Init PROVE Form
  OBVIOUS
<1>1. \A S : <<>> \in Seq(S)
  OBVIOUS
<1>2. 0 \in 0 .. MaxProbes /\ 0 \in 0 .. Lines /\ faults \in Kinds
  BY SizesAssumption, FaultsAssumption DEF Init, Kinds
<1>3. Types
  BY <1>1, <1>2 DEF Init, Types, Ways, Stacks
<1>4. Quiet
  BY DEF Init, Quiet, Up, In, Contains
<1>5. \A p \in Sides : net[p] = <<>> /\ rcv[p] = <<>>
  BY DEF Init
<1>6. Fins
  BY <1>5 DEF Fins, FinLast, EofLast, AllRst, Contains
<1> QED
  BY <1>3, <1>4, <1>6 DEF Form

LEMMA FormNext == Form /\ [Next]_vars => Form'
<1> SUFFICES ASSUME Form, [Next]_vars PROVE Form'
  OBVIOUS
<1>1. CASE Next
  <2>1. \A p \in Sides : Handler(p) => Form'
    BY EnterForm, SigUrgForm, SigAlrmForm DEF Handler
  <2>2. \A p \in Sides : ReadError(p) \/ Announce(p) \/ Skip(p) \/ Crash(p) \/ Deliver(p) => Form'
    BY LoopForm, RestForm, DeliverForm
  <2> QED
    BY <1>1, <2>1, <2>2, LoopForm, RestForm DEF Next, Loop
<1>2. CASE UNCHANGED vars
  <2>1. UNCHANGED <<status, pending, stack, nprobes, loaded, net, rcv, urg, rst, stdineof, typed, out, faults>>
    BY <1>2 DEF vars, signals, tcp, cli
  <2>2. Types'
    BY <2>1 DEF Form, Types
  <2>3. Quiet'
    BY <2>1 DEF Form, Quiet, Up, In
  <2>4. Fins'
    BY <2>1, SameStreams DEF Gone, Up, FinSent
  <2> QED
    BY <2>2, <2>3, <2>4 DEF Form
<1> QED
  BY <1>1, <1>2

-----------------------------------------------------------------------------
(* Heartbeats under way *)

Live == Up("cli") /\ Up("srv")

Lost == faults.slow + faults.torn

Second(s) == \E j, k \in DOMAIN s : j < k /\ s[j] = "probe" /\ s[k] = "probe"

\* A heartbeat that p will hear of: one in flight that was not announced yet, a
\* SIGURG that waits, or a sig_urg that runs.
Real(p) == IF urg[p] = "coming" THEN Second(net[p]) ELSE Contains(net[p], "probe")
Tok(p) == "urg" \in pending[p] \/ In(p, "urg") \/ Real(p)

Waits(p) == "alrm" \in pending[p] \/ In(p, "alrm")

\* What nprobes will be when the alarm that waits, if any, has been handled.
Missed(p) == IF In(p, "alrm") THEN loaded[p] + 1
             ELSE IF "alrm" \in pending[p] THEN nprobes[p] + 1
             ELSE nprobes[p]

\* Between two live processes a heartbeat is under way, or the client is about to
\* send one, or every second without one was a fault.
Beats == Live =>
    /\ \A p \in Sides : /\ ~rst[p] /\ ~Contains(net[p], "rst")
                        /\ urg[p] = "coming" => Contains(net[p], "probe")
    /\ Missed("cli") <= Lost + 1
    /\ Waits("cli") \/ Tok("srv") \/ Tok("cli") \/ Missed("cli") <= Lost
    /\ Missed("srv") <= Lost + 2
    /\ Waits("cli") \/ Tok("srv") \/ Missed("srv") <= Lost + 1
    /\ stack["srv"] = <<"urg", "alrm">> => Missed("srv") <= Lost + 1

Enough(p) == Lost >= IF p = "cli" THEN MaxProbes ELSE MaxProbes - 1

GivenUp == \A p \in Sides : status[p] \in GaveUp /\ Up(Peer(p)) => Enough(p)

FaultFree == faults.slow = 0 /\ faults.ahead = 0 /\ faults.torn = 0 /\ faults.crash = 0

\* Without faults one heartbeat at a time is under way, and its SIGURG with it.
Single(p) == Up(p) =>
    /\ urg[p] # "coming" /\ (urg[p] = "valid" <=> "urg" \in pending[p] \/ In(p, "urg"))
    /\ ~("urg" \in pending[p] /\ In(p, "urg"))
    /\ ~Second(net[p]) /\ (Contains(net[p], "probe") => urg[p] = "none")

InTime == Live => /\ ~Tok("cli") \/ ~Tok("srv")
                  /\ Waits("cli") => ~Tok("cli") /\ ~Tok("srv")

NoStray ==
    /\ \A p \in Sides : ~Contains(rcv[p], "stray") /\ ~Contains(net[p], "stray")
    /\ ~Contains(out, "stray")

Clean(p) == status[p] \notin {"recv_error", "crashed"}

Prompt == FaultFree => (\A p \in Sides : Single(p) /\ Clean(p)) /\ InTime /\ NoStray

HInv == Form /\ Beats /\ GivenUp /\ Prompt

LEMMA Seconds ==
  ASSUME NEW s \in Seq(Items), NEW t \in Seq(Items)
  PROVE  /\ ~Contains(t, "probe") => (Second(s \o t) <=> Second(s))
         /\ Second(s) => Contains(s, "probe") /\ Second(s \o t)
<1>1. /\ Len(s) \in Nat /\ Len(t) \in Nat
      /\ DOMAIN s = 1 .. Len(s) /\ DOMAIN (s \o t) = 1 .. Len(s) + Len(t)
      /\ \A k \in 1 .. Len(s) : (s \o t)[k] = s[k] /\ k \in 1 .. Len(s) + Len(t)
      /\ \A k \in 1 .. Len(s) + Len(t) : k \notin 1 .. Len(s) =>
           k - Len(s) \in 1 .. Len(t) /\ (s \o t)[k] = t[k - Len(s)]
  OBVIOUS
<1>2. Second(s) => Contains(s, "probe") /\ Second(s \o t)
  BY <1>1 DEF Second, Contains
<1>3. ~Contains(t, "probe") /\ Second(s \o t) => Second(s)
  BY <1>1 DEF Second, Contains
<1> QED
  BY <1>2, <1>3

LEMMA ProbeAfter ==
  ASSUME NEW s \in Seq(Items)
  PROVE  /\ s \o <<"probe">> \in Seq(Items)
         /\ \A x : Contains(s \o <<"probe">>, x) <=> Contains(s, x) \/ x = "probe"
         /\ Second(s \o <<"probe">>) <=> Contains(s, "probe")
<1>1. s \o <<"probe">> = Append(s, "probe") /\ "probe" \in Items
  BY AppendIsConcat DEF Items
<1>2. /\ Len(s) \in Nat /\ DOMAIN s = 1 .. Len(s)
      /\ DOMAIN Append(s, "probe") = 1 .. Len(s) + 1
      /\ \A k \in 1 .. Len(s) : Append(s, "probe")[k] = s[k]
      /\ Append(s, "probe")[Len(s) + 1] = "probe"
  BY <1>1, AppendProperties, LenProperties
<1>3. \A j, k \in 1 .. Len(s) + 1 : j < k => j \in 1 .. Len(s)
  BY <1>2
<1>4. \A k \in 1 .. Len(s) : k < Len(s) + 1 /\ k \in 1 .. Len(s) + 1
  BY <1>2
<1>5. Len(s) + 1 \in 1 .. Len(s) + 1
  BY <1>2
<1>6. Second(Append(s, "probe")) <=> Contains(s, "probe")
  BY <1>2, <1>3, <1>4, <1>5 DEF Second, Contains
<1>7. /\ Append(s, "probe") \in Seq(Items)
      /\ \A x : Contains(Append(s, "probe"), x) <=> Contains(s, x) \/ x = "probe"
  BY <1>1, AfterAppend
<1> QED
  BY <1>1, <1>6, <1>7

LEMMA SecondTail ==
  ASSUME NEW s \in Seq(Items), s # <<>>
  PROVE  Second(s) <=> Second(Tail(s)) \/ (Head(s) = "probe" /\ Contains(Tail(s), "probe"))
<1>1. /\ Len(s) \in Nat \ {0} /\ Len(Tail(s)) = Len(s) - 1 /\ Head(s) = s[1]
      /\ DOMAIN s = 1 .. Len(s) /\ DOMAIN Tail(s) = 1 .. Len(s) - 1
      /\ \A k \in 1 .. Len(s) - 1 : Tail(s)[k] = s[k + 1]
  OBVIOUS
<1>2. \A k \in 1 .. Len(s) - 1 : k + 1 \in 1 .. Len(s) /\ 1 < k + 1
  BY <1>1
<1>3. 1 \in 1 .. Len(s)
  BY <1>1
<1>4. \A k \in 1 .. Len(s) : k # 1 => k - 1 \in 1 .. Len(s) - 1 /\ s[k] = Tail(s)[k - 1]
  <2>1. \A k \in 1 .. Len(s) : k # 1 => k - 1 \in 1 .. Len(s) - 1 /\ k = (k - 1) + 1
    BY <1>1
  <2> QED
    BY <1>1, <2>1
<1>5. /\ \A j, k \in 1 .. Len(s) - 1 : j < k => j + 1 < k + 1
      /\ \A j, k \in 1 .. Len(s) : j < k => k # 1 /\ j - 1 < k - 1
  BY <1>1
<1>6. Second(Tail(s)) => Second(s)
  BY <1>1, <1>2, <1>5 DEF Second
<1>7. Head(s) = "probe" /\ Contains(Tail(s), "probe") => Second(s)
  BY <1>1, <1>2, <1>3 DEF Second, Contains
<1>8. ASSUME NEW j \in 1 .. Len(s), NEW k \in 1 .. Len(s), j < k, s[j] = "probe", s[k] = "probe"
      PROVE  Second(Tail(s)) \/ (Head(s) = "probe" /\ Contains(Tail(s), "probe"))
  <2>1. CASE j = 1
    BY <1>1, <1>4, <1>5, <1>8, <2>1 DEF Contains
  <2>2. CASE j # 1
    <3>1. k # 1 /\ j - 1 < k - 1
      BY <1>5, <1>8
    <3>2. /\ j - 1 \in DOMAIN Tail(s) /\ Tail(s)[j - 1] = "probe"
          /\ k - 1 \in DOMAIN Tail(s) /\ Tail(s)[k - 1] = "probe"
      BY <1>1, <1>4, <1>8, <2>2, <3>1
    <3> QED
      BY <3>1, <3>2 DEF Second
  <2> QED
    BY <2>1, <2>2
<1> QED
  BY <1>1, <1>6, <1>7, <1>8 DEF Second
LEMMA EndBeats ==
  ASSUME HInv, NEW p \in Sides, NEW how \in Ways \ {"up", "crashed"}, Up(p), End(p, how),
         out' = out, faults' = faults,
         how \in GaveUp /\ Up(Peer(p)) => Enough(p), how = "recv_error" => ~FaultFree
  PROVE  (Beats /\ GivenUp /\ Prompt)'
<1> DEFINE q == Peer(p)
<1>1. Types /\ q \in Sides /\ q # p /\ Peer(q) = p /\ \A r \in Sides : r = p \/ r = q
  BY TwoSides DEF HInv, Form
<1>2. /\ status' = [status EXCEPT ![p] = how] /\ pending' = [pending EXCEPT ![p] = {}]
      /\ stack' = [stack EXCEPT ![p] = <<>>] /\ rcv' = [rcv EXCEPT ![p] = <<>>]
      /\ urg' = urg /\ rst' = rst
  BY DEF End
<1>3. /\ status'[p] = how /\ status'[q] = status[q] /\ ~Up(p)' /\ Up(q)' = Up(q)
      /\ pending'[q] = pending[q] /\ stack'[q] = stack[q] /\ rcv'[p] = <<>> /\ rcv'[q] = rcv[q]
  <2>1. /\ status'[p] = how /\ status'[q] = status[q]
        /\ pending'[q] = pending[q] /\ stack'[q] = stack[q] /\ rcv'[p] = <<>> /\ rcv'[q] = rcv[q]
    BY <1>1, <1>2 DEF Types
  <2> QED
    BY <2>1 DEF Up
<1>4. PICK x \in {"fin", "rst"} : net' = net \/ net' = [net EXCEPT ![q] = Append(@, x)]
  BY DEF End
<1>5. net'[p] = net[p] /\ (net'[q] = net[q] \/ net'[q] = Append(net[q], x))
  <2>1. DOMAIN net = Sides
    BY <1>1 DEF Types
  <2> QED
    BY <2>1, <1>1, <1>4
<1>6. /\ Second(net'[q]) <=> Second(net[q])
      /\ \A y : y \notin {"fin", "rst"} => (Contains(net'[q], y) <=> Contains(net[q], y))
  <2>1. net[q] \in Seq(Items) /\ <<x>> \in Seq(Items) /\ x \in Items
    BY <1>1 DEF Types, Items
  <2>2. Append(net[q], x) = net[q] \o <<x>>
    BY <2>1, AppendIsConcat
  <2>3. ~Contains(<<x>>, "probe")
    BY DEF Contains
  <2>4. Second(net[q] \o <<x>>) <=> Second(net[q])
    BY <2>1, <2>3, Seconds
  <2>5. \A y : Contains(Append(net[q], x), y) <=> Contains(net[q], y) \/ y = x
    BY <2>1, AfterAppend
  <2> QED
    BY <1>5, <2>2, <2>4, <2>5
<1> HIDE DEF q
<1>7. Beats'
  <2>1. p = "cli" \/ p = "srv"
    BY TwoSides
  <2> QED
    BY <1>3, <2>1 DEF Beats, Live
<1>8. GivenUp'
  <2>1. Enough(p)' = Enough(p)
    BY DEF Enough, Lost
  <2>2. status'[p] \in GaveUp /\ Up(Peer(p))' => Enough(p)'
    BY <1>3, <2>1 DEF q
  <2>3. ~Up(Peer(q))'
    BY <1>1, <1>3
  <2> QED
    BY <1>1, <2>2, <2>3 DEF GivenUp
<1>9. Prompt'
  <2> SUFFICES ASSUME FaultFree PROVE (\A r \in Sides : Single(r)' /\ Clean(r)') /\ InTime' /\ NoStray'
    BY DEF Prompt, FaultFree
  <2>1. (\A r \in Sides : Single(r) /\ Clean(r)) /\ NoStray
    BY DEF HInv, Prompt
  <2>2. Single(p)' /\ Clean(p)'
    BY <1>3, <2>1 DEF Single, Clean
  <2>3. Single(q)' /\ Clean(q)'
    BY <1>1, <1>2, <1>3, <1>6, <2>1 DEF Single, Clean, In
  <2>4. InTime'
    <3>1. p = "cli" \/ p = "srv"
      BY TwoSides
    <3> QED
      BY <1>3, <3>1 DEF InTime, Live
  <2>5. NoStray'
    <3>1. ~Contains(<<>>, "stray")
      BY DEF Contains
    <3> QED
      BY <1>1, <1>3, <1>5, <1>6, <2>1, <3>1 DEF NoStray
  <2> QED
    BY <1>1, <2>2, <2>3, <2>4, <2>5
<1> QED
  BY <1>7, <1>8, <1>9

LEMMA StreamBeats ==
  ASSUME HInv, UNCHANGED <<status, pending, stack, nprobes, loaded, urg, rst, faults>>,
         NEW p \in Sides, NEW t \in Seq({"line", "stray", "fin"}),
         net'[p] = net[p], net'[Peer(p)] = net[Peer(p)] \o t,
         Contains(t, "stray") => Contains(rcv[p], "stray"),
         \A q \in Sides : Contains(rcv'[q], "stray") => Contains(rcv[q], "stray"),
         Contains(out', "stray") => Contains(out, "stray") \/ Contains(rcv[p], "stray")
  PROVE  (Beats /\ GivenUp /\ Prompt)'
<1>1. Types /\ Peer(p) \in Sides /\ \A r \in Sides : r = p \/ r = Peer(p)
  BY TwoSides DEF HInv, Form
<1>2. ~Contains(t, "probe") /\ ~Contains(t, "rst") /\ t \in Seq(Items)
  <2>1. \A k \in 1 .. Len(t) : t[k] \in {"line", "stray", "fin"}
    BY ElementOfSeq
  <2>2. t \in Seq(Items)
    BY SeqMonotonic DEF Items
  <2> QED
    BY <2>1, <2>2 DEF Contains
<1>3. \A q \in Sides : /\ Second(net'[q]) <=> Second(net[q])
                       /\ Contains(net'[q], "probe") <=> Contains(net[q], "probe")
                       /\ Contains(net'[q], "rst") <=> Contains(net[q], "rst")
                       /\ Contains(net'[q], "stray") => Contains(net[q], "stray") \/ Contains(t, "stray")
  <2>1. net[Peer(p)] \in Seq(Items)
    BY <1>1 DEF Types
  <2>2. Second(net[Peer(p)] \o t) <=> Second(net[Peer(p)])
    BY <1>2, <2>1, Seconds
  <2>3. \A x : Contains(net[Peer(p)] \o t, x) <=> Contains(net[Peer(p)], x) \/ Contains(t, x)
    BY <1>2, <2>1, AfterConcat
  <2> QED
    BY <1>1, <1>2, <2>2, <2>3
<1>4. /\ Live' = Live /\ Lost' = Lost
      /\ \A q \in Sides : /\ Tok(q)' <=> Tok(q)
                          /\ Waits(q)' <=> Waits(q)
                          /\ Missed(q)' = Missed(q)
                          /\ Up(q)' <=> Up(q)
  <2>1. Live' = Live /\ Lost' = Lost
    BY DEF Live, Up, Lost
  <2>2. \A q \in Sides : (Tok(q)' <=> Tok(q)) /\ (Waits(q)' <=> Waits(q)) /\ (Up(q)' <=> Up(q))
    BY <1>3 DEF Tok, In, Real, Waits, Up
  <2>3. \A q \in Sides : Missed(q)' = Missed(q)
    BY DEF Missed, In
  <2> QED
    BY <2>1, <2>2, <2>3
<1>5. Beats'
  BY <1>3, <1>4, TwoSides DEF HInv, Beats
<1>6. GivenUp'
  BY <1>4, TwoSides DEF HInv, GivenUp, Enough
<1>7. Prompt'
  <2> SUFFICES ASSUME FaultFree PROVE (\A r \in Sides : Single(r)' /\ Clean(r)') /\ InTime' /\ NoStray'
    BY DEF Prompt, FaultFree
  <2>1. (\A r \in Sides : Single(r) /\ Clean(r)) /\ InTime /\ NoStray
    BY DEF HInv, Prompt
  <2>2. \A r \in Sides : Single(r)' /\ Clean(r)'
    BY <1>3, <1>4, <2>1 DEF Single, Clean, In
  <2>3. InTime'
    BY <1>4, <2>1, TwoSides DEF InTime
  <2>4. NoStray'
    BY <1>3, <2>1 DEF NoStray
  <2> QED
    BY <2>2, <2>3, <2>4
<1> QED
  BY <1>5, <1>6, <1>7
LEMMA PopUrg ==
  ASSUME Form, NEW p \in Sides, Running(p, "urg"), stack'[p] = Tail(stack[p])
  PROVE  /\ In(p, "urg") /\ ~In(p, "urg")' /\ (In(p, "alrm")' <=> In(p, "alrm"))
         /\ In(p, "alrm") => stack[p] = <<"urg", "alrm">>
         /\ stack'[p] # <<"urg", "alrm">>
<1> DEFINE s == stack[p]
<1>1. s \in Stacks /\ s # <<>> /\ Head(s) = "urg" /\ stack'[p] = Tail(s)
  BY DEF Form, Types, Running
<1> HIDE DEF s
<1>2. /\ Contains(s, "urg") /\ ~Contains(Tail(s), "urg")
      /\ Contains(Tail(s), "alrm") <=> Contains(s, "alrm")
      /\ Tail(s) # <<"urg", "alrm">>
      /\ Contains(s, "alrm") /\ Head(s) = "urg" => s = <<"urg", "alrm">>
  BY <1>1, Popped
<1> QED
  BY <1>1, <1>2 DEF In, s

LEMMA PopAlrm ==
  ASSUME Form, NEW p \in Sides, Running(p, "alrm"), stack'[p] = Tail(stack[p])
  PROVE  /\ In(p, "alrm") /\ ~In(p, "alrm")' /\ (In(p, "urg")' <=> In(p, "urg"))
         /\ stack'[p] # <<"urg", "alrm">>
<1> DEFINE s == stack[p]
<1>1. s \in Stacks /\ s # <<>> /\ Head(s) = "alrm" /\ stack'[p] = Tail(s)
  BY DEF Form, Types, Running
<1> HIDE DEF s
<1>2. /\ Contains(s, "alrm") /\ ~Contains(Tail(s), "alrm")
      /\ Contains(Tail(s), "urg") <=> Contains(s, "urg")
      /\ Tail(s) # <<"urg", "alrm">>
      /\ Contains(s, "alrm") /\ Head(s) = "urg" => s = <<"urg", "alrm">>
  BY <1>1, Popped
<1> QED
  BY <1>1, <1>2 DEF In, s

\* What a heartbeat that is sent changes for the other side.
LEMMA Beating ==
  ASSUME HInv, NEW p \in Sides, Send(p, <<"probe">>)
  PROVE  /\ net'[p] = net[p] /\ \A x : Contains(net'[Peer(p)], x) <=> Contains(net[Peer(p)], x) \/ x = "probe"
         /\ Second(net'[Peer(p)]) <=> Contains(net[Peer(p)], "probe")
<1>1. Types /\ Peer(p) \in Sides /\ Peer(p) # p
  BY TwoSides DEF HInv, Form
<1>2. net'[p] = net[p] /\ net'[Peer(p)] = net[Peer(p)] \o <<"probe">> /\ net[Peer(p)] \in Seq(Items)
  BY <1>1 DEF Send, Types
<1> QED
  BY <1>2, ProbeAfter

LEMMA SigUrgBeats ==
  ASSUME HInv, NEW p \in Sides, SigUrg(p)
  PROVE  (Beats /\ GivenUp /\ Prompt)'
<1> DEFINE q == Peer(p)
<1>1. Form /\ Types /\ Up(p) /\ Running(p, "urg") /\ stack[p] \in Stacks /\ In(p, "urg")
  <2>1. Form /\ Types /\ Up(p) /\ Running(p, "urg") /\ stack[p] \in Stacks
    BY DEF HInv, Form, Types, SigUrg, Running
  <2> QED
    BY <2>1, Popped DEF Running, In
<1>2. \A how : End(p, how) /\ how = "sigpipe" => (Beats /\ GivenUp /\ Prompt)'
  BY <1>1, EndBeats DEF Ways, GaveUp, SigUrg, cli
<1>3. urg[p] = "none" => ~FaultFree
  BY <1>1 DEF HInv, Prompt, Single
<1>4. CASE urg[p] = "none"
  BY <1>1, <1>3, <1>4, EndBeats DEF Ways, GaveUp, SigUrg, cli
<1>5. CASE urg[p] # "none" /\ ~(p = "srv" /\ ~MaySend(p))
  <2>1. /\ stack' = [stack EXCEPT ![p] = Tail(@)] /\ UNCHANGED <<status, pending>>
        /\ nprobes' = [nprobes EXCEPT ![p] = 0]
        /\ urg' = [urg EXCEPT ![p] = IF @ = "valid" THEN "none" ELSE @]
        /\ IF p = "srv" THEN Send(p, <<"probe">>) ELSE UNCHANGED net
        /\ UNCHANGED <<loaded, rcv, rst, out, faults>>
    BY <1>5 DEF SigUrg, Return, HeardFrom, cli
  <2>2. q \in Sides /\ q # p /\ \A r \in Sides : r = p \/ r = q
    BY TwoSides
  <2> HIDE DEF q
  <2>3. /\ stack'[p] = Tail(stack[p]) /\ stack'[q] = stack[q]
        /\ nprobes'[p] = 0 /\ nprobes'[q] = nprobes[q]
        /\ urg'[p] = (IF urg[p] = "valid" THEN "none" ELSE urg[p]) /\ urg'[q] = urg[q]
    BY <1>1, <2>1, <2>2 DEF Types
  <2>4. /\ ~In(p, "urg")' /\ (In(p, "alrm")' <=> In(p, "alrm"))
        /\ In(p, "alrm") => stack[p] = <<"urg", "alrm">>
        /\ stack'[p] # <<"urg", "alrm">> /\ (\A h : In(q, h)' <=> In(q, h))
    BY <1>1, <2>3, PopUrg DEF In
  <2>5. /\ \A r \in Sides : Waits(r)' <=> Waits(r)
        /\ Missed(q)' = Missed(q)
        /\ Missed(p)' = IF In(p, "alrm") THEN Missed(p) ELSE IF "alrm" \in pending[p] THEN 1 ELSE 0
    BY <2>1, <2>2, <2>3, <2>4 DEF Waits, Missed
  <2>6. /\ net'[p] = net[p]
        /\ p = "srv" => /\ \A x : Contains(net'[q], x) <=> Contains(net[q], x) \/ x = "probe"
                        /\ Second(net'[q]) <=> Contains(net[q], "probe")
        /\ p = "cli" => net' = net
    BY <2>1, Beating DEF q
  <2>7. Live' = Live /\ Lost' = Lost /\ Lost \in Nat /\ \A r \in Sides : Up(r)' = Up(r)
    BY <1>1, <2>1, FaultsAssumption DEF Live, Lost, Up, Types, Kinds
  <2>8. \A r \in Sides : Missed(r) \in Nat
    BY <1>1, SizesAssumption DEF Types, Missed
  <2>9. CASE p = "srv"
    <3>1. q = "cli"
      BY <2>9, TwoSides DEF q
    <3>2. ASSUME Live PROVE Tok("cli")'
      BY <2>3, <2>6, <2>9, <3>1, <3>2 DEF HInv, Beats, Tok, Real, Sides
    <3>3. Beats'
      <4> SUFFICES ASSUME Live PROVE Beats'
        BY <2>7 DEF Beats
      <4>1. /\ ~rst["cli"] /\ ~Contains(net["cli"], "rst") /\ ~rst["srv"] /\ ~Contains(net["srv"], "rst")
            /\ urg["cli"] = "coming" => Contains(net["cli"], "probe")
            /\ urg["srv"] = "coming" => Contains(net["srv"], "probe")
            /\ Missed("cli") <= Lost + 1 /\ (stack["srv"] = <<"urg", "alrm">> => Missed("srv") <= Lost + 1)
        BY DEF HInv, Beats, Sides
      <4>2. Missed("srv")' <= Lost + 1 /\ Missed("srv")' \in Nat
        BY <2>4, <2>5, <2>7, <2>8, <2>9, <4>1 DEF Sides
      <4>3. Missed("srv")' <= Lost + 2
        BY <2>7, <4>2
      <4>4. Missed("cli")' <= Lost + 1
        BY <2>5, <3>1, <4>1
      <4>5. ~rst["cli"]' /\ ~Contains(net["cli"], "rst")' /\ ~rst["srv"]' /\ ~Contains(net["srv"], "rst")'
        BY <2>1, <2>6, <2>9, <3>1, <4>1
      <4>6. /\ urg'["cli"] = "coming" => Contains(net'["cli"], "probe")
            /\ urg'["srv"] = "coming" => Contains(net'["srv"], "probe")
        BY <2>3, <2>6, <2>9, <3>1, <4>1
      <4> QED
        BY <2>7, <3>2, <4>2, <4>3, <4>4, <4>5, <4>6, TwoSides DEF Beats
    <3>4. Prompt'
      <4> SUFFICES ASSUME FaultFree PROVE (\A r \in Sides : Single(r)' /\ Clean(r)') /\ InTime' /\ NoStray'
        BY <2>1 DEF Prompt, FaultFree
      <4>1. Single("srv") /\ Single("cli") /\ (\A r \in Sides : Clean(r)) /\ InTime /\ NoStray
        BY DEF HInv, Prompt, Sides
      <4>2. urg[p] = "valid" /\ "urg" \notin pending[p] /\ ~Contains(net[p], "probe") /\ ~Second(net[p])
        BY <1>1, <2>9, <4>1 DEF Single
      <4>3. Single("srv")' /\ ~Tok("srv")'
        BY <2>1, <2>3, <2>4, <2>6, <2>9, <4>2 DEF Single, Tok, Real
      <4>4. Single("cli")'
        <5> SUFFICES ASSUME Up("cli") PROVE Single("cli")'
          BY <2>7 DEF Single, Sides
        <5>1. ~Tok("cli")
          BY <1>1, <2>9, <4>1 DEF InTime, Live, Tok
        <5>2. urg["cli"] = "none" /\ "urg" \notin pending["cli"] /\ ~In("cli", "urg") /\ ~Contains(net["cli"], "probe")
          BY <1>1, <4>1, <5>1 DEF Single, Tok, Real, Types, Sides
        <5> QED
          BY <2>1, <2>3, <2>4, <2>6, <2>9, <3>1, <5>2 DEF Single
      <4>5. InTime'
        <5>1. ASSUME Live PROVE ~Waits("cli")'
          BY <1>1, <2>5, <2>9, <3>1, <4>1, <5>1 DEF InTime, Tok, Sides
        <5> QED
          BY <2>7, <4>3, <5>1 DEF InTime
      <4>6. NoStray'
        BY <2>1, <2>2, <2>6, <2>9, <4>1 DEF NoStray
      <4>7. \A r \in Sides : Clean(r)'
        BY <2>1, <4>1 DEF Clean
      <4> QED
        BY <4>3, <4>4, <4>5, <4>6, <4>7, TwoSides
    <3> QED
      BY <2>1, <2>7, <3>3, <3>4, TwoSides DEF HInv, GivenUp, Enough
  <2>10. CASE p = "cli"
    <3>1. q = "srv"
      BY <2>10, TwoSides DEF q
    <3>2. Tok("srv")' <=> Tok("srv")
      BY <2>1, <2>3, <2>4, <2>6, <2>10, <3>1 DEF Tok, Real
    <3>3. Beats'
      <4> SUFFICES ASSUME Live PROVE Beats'
        BY <2>7 DEF Beats
      <4>1. /\ \A r \in Sides : /\ ~rst[r] /\ ~Contains(net[r], "rst")
                                /\ urg[r] = "coming" => Contains(net[r], "probe")
            /\ Missed("cli") <= Lost + 1 /\ Missed("srv") <= Lost + 2
            /\ Waits("cli") \/ Tok("srv") \/ Missed("srv") <= Lost + 1
            /\ stack["srv"] = <<"urg", "alrm">> => Missed("srv") <= Lost + 1
        BY DEF HInv, Beats
      <4>2. Missed("cli")' <= Lost + 1 /\ (Waits("cli") \/ Missed("cli")' <= Lost)
        BY <2>5, <2>7, <2>8, <2>10, <4>1 DEF Waits
      <4>3. Missed("srv")' = Missed("srv") /\ (Waits("cli")' <=> Waits("cli"))
        BY <2>5, <3>1 DEF Sides
      <4>4. \A r \in Sides : /\ ~rst[r]' /\ ~Contains(net[r], "rst")'
                             /\ urg'[r] = "coming" => Contains(net'[r], "probe")
        BY <2>1, <2>2, <2>3, <2>6, <2>10, <4>1
      <4> QED
        BY <2>3, <2>7, <3>1, <3>2, <4>1, <4>2, <4>3, <4>4 DEF Beats
    <3>4. Prompt'
      <4> SUFFICES ASSUME FaultFree PROVE (\A r \in Sides : Single(r)' /\ Clean(r)') /\ InTime' /\ NoStray'
        BY <2>1 DEF Prompt, FaultFree
      <4>1. Single("srv") /\ Single("cli") /\ (\A r \in Sides : Clean(r)) /\ InTime /\ NoStray
        BY DEF HInv, Prompt, Sides
      <4>2. urg[p] = "valid" /\ "urg" \notin pending[p] /\ ~Contains(net[p], "probe") /\ ~Second(net[p])
        BY <1>1, <2>10, <4>1 DEF Single
      <4>3. Single("cli")' /\ ~Tok("cli")'
        BY <2>1, <2>3, <2>4, <2>6, <2>10, <4>2 DEF Single, Tok, Real
      <4>4. Single("srv")'
        BY <2>1, <2>3, <2>4, <2>6, <2>7, <2>10, <3>1, <4>1 DEF Single, Sides
      <4>5. InTime'
        BY <1>1, <2>5, <2>7, <2>10, <4>1, <4>3, <3>2 DEF InTime, Tok, Sides
      <4>6. NoStray'
        BY <2>1, <2>6, <2>10, <4>1 DEF NoStray
      <4>7. \A r \in Sides : Clean(r)'
        BY <2>1, <4>1 DEF Clean
      <4> QED
        BY <4>3, <4>4, <4>5, <4>6, <4>7, TwoSides
    <3> QED
      BY <2>1, <2>7, <3>3, <3>4, TwoSides DEF HInv, GivenUp, Enough
  <2> QED
    BY <2>9, <2>10, TwoSides
<1> QED
  BY <1>2, <1>4, <1>5 DEF SigUrg
LEMMA SigAlrmBeats ==
  ASSUME HInv, NEW p \in Sides, SigAlrm(p)
  PROVE  (Beats /\ GivenUp /\ Prompt)'
<1> DEFINE q == Peer(p)
<1>1. Form /\ Types /\ Up(p) /\ Running(p, "alrm") /\ stack[p] \in Stacks /\ In(p, "alrm")
  <2>1. Form /\ Types /\ Up(p) /\ Running(p, "alrm") /\ stack[p] \in Stacks
    BY DEF HInv, Form, Types, SigAlrm, Running
  <2> QED
    BY <2>1, Popped DEF Running, In
<1>2. "alrm" \notin pending[p] /\ Missed(p) = loaded[p] + 1
  BY <1>1 DEF Form, Quiet, Missed
<1>3. ASSUME TooMany(Counted(p)), Up(q)
      PROVE  Enough(p)
  <2>1. Live
    BY <1>1, <1>3, TwoSides DEF Live
  <2>2. Missed("cli") <= Lost + 1 /\ Missed("srv") <= Lost + 2
    BY <2>1 DEF HInv, Beats
  <2>3. Missed(p) > MaxProbes
    BY <1>2, <1>3 DEF TooMany, Counted
  <2>4. Lost \in Nat /\ MaxProbes \in Nat /\ Missed(p) \in Nat
    <3>1. faults.slow \in Nat /\ faults.torn \in Nat /\ loaded[p] \in Nat
      BY <1>1, FaultsAssumption, SizesAssumption DEF Types, Kinds
    <3> QED
      BY <1>2, <3>1, SizesAssumption DEF Lost
  <2>5. p = "cli" \/ p = "srv"
    BY TwoSides
  <2> QED
    BY <2>2, <2>3, <2>4, <2>5 DEF Enough
<1>4. \A how : End(p, how) /\ how \in {"unreachable", "no_probes", "sigpipe"}
                 /\ (how = "sigpipe" \/ TooMany(Counted(p))) => (Beats /\ GivenUp /\ Prompt)'
  BY <1>1, <1>3, EndBeats DEF Ways, GaveUp, SigAlrm, cli
<1>5. CASE ~TooMany(Counted(p)) /\ ~(p = "cli" /\ ~MaySend(p))
  <2>1. /\ stack' = [stack EXCEPT ![p] = Tail(@)] /\ UNCHANGED <<status, pending>>
        /\ nprobes' = [nprobes EXCEPT ![p] = loaded[p] + 1]
        /\ loaded' = [loaded EXCEPT ![p] = 0]
        /\ IF p = "cli" THEN Send(p, <<"probe">>) ELSE UNCHANGED net
        /\ UNCHANGED <<rcv, urg, rst, out, faults>>
    BY <1>5 DEF SigAlrm, Return, Counted, cli
  <2>2. q \in Sides /\ q # p /\ \A r \in Sides : r = p \/ r = q
    BY TwoSides
  <2> HIDE DEF q
  <2>3. /\ stack'[p] = Tail(stack[p]) /\ stack'[q] = stack[q]
        /\ nprobes'[p] = loaded[p] + 1 /\ nprobes'[q] = nprobes[q] /\ loaded'[q] = loaded[q]
    BY <1>1, <2>1, <2>2 DEF Types
  <2>4. /\ ~In(p, "alrm")' /\ (\A r \in Sides : In(r, "urg")' <=> In(r, "urg"))
        /\ stack'[p] # <<"urg", "alrm">> /\ (In(q, "alrm")' <=> In(q, "alrm"))
    BY <1>1, <2>2, <2>3, PopAlrm DEF In
  <2>5. /\ ~Waits(p)' /\ (Waits(q)' <=> Waits(q))
        /\ \A r \in Sides : Missed(r)' = Missed(r)
    BY <1>2, <2>1, <2>2, <2>3, <2>4 DEF Waits, Missed
  <2>6. /\ net'[p] = net[p]
        /\ p = "cli" => /\ \A x : Contains(net'[q], x) <=> Contains(net[q], x) \/ x = "probe"
                        /\ Second(net'[q]) <=> Contains(net[q], "probe")
        /\ p = "srv" => net' = net
    BY <2>1, Beating DEF q
  <2>7. Live' = Live /\ Lost' = Lost /\ \A r \in Sides : Up(r)' = Up(r)
    BY <2>1 DEF Live, Lost, Up
  <2>8. CASE p = "cli"
    <3>1. q = "srv"
      BY <2>8, TwoSides DEF q
    <3>2. ASSUME Live PROVE Tok("srv")'
      BY <2>1, <2>6, <2>8, <3>1, <3>2 DEF HInv, Beats, Tok, Real, Sides
    <3>3. Tok("cli")' <=> Tok("cli")
      BY <2>1, <2>4, <2>6, <2>8 DEF Tok, Real
    <3>4. Beats'
      <4> SUFFICES ASSUME Live PROVE Beats'
        BY <2>7 DEF Beats
      <4>1. /\ \A r \in Sides : /\ ~rst[r] /\ ~Contains(net[r], "rst")
                                /\ urg[r] = "coming" => Contains(net[r], "probe")
            /\ Missed("cli") <= Lost + 1 /\ Missed("srv") <= Lost + 2
            /\ stack["srv"] = <<"urg", "alrm">> => Missed("srv") <= Lost + 1
        BY DEF HInv, Beats
      <4>2. \A r \in Sides : /\ ~rst[r]' /\ ~Contains(net[r], "rst")'
                             /\ urg'[r] = "coming" => Contains(net'[r], "probe")
        BY <2>1, <2>2, <2>6, <2>8, <4>1
      <4>3. Missed("cli")' = Missed("cli") /\ Missed("srv")' = Missed("srv")
        BY <2>5 DEF Sides
      <4> QED
        BY <2>3, <2>7, <3>1, <3>2, <4>1, <4>2, <4>3 DEF Beats
    <3>5. Prompt'
      <4> SUFFICES ASSUME FaultFree PROVE (\A r \in Sides : Single(r)' /\ Clean(r)') /\ InTime' /\ NoStray'
        BY <2>1 DEF Prompt, FaultFree
      <4>1. Single("srv") /\ Single("cli") /\ (\A r \in Sides : Clean(r)) /\ InTime /\ NoStray
        BY DEF HInv, Prompt, Sides
      <4>2. Single("cli")'
        BY <2>1, <2>4, <2>6, <2>7, <2>8, <4>1 DEF Single
      <4>3. Single("srv")'
        <5> SUFFICES ASSUME Up("srv") PROVE Single("srv")'
          BY <2>7 DEF Single, Sides
        <5>1. ~Tok("srv")
          BY <1>1, <2>8, <4>1 DEF InTime, Live, Waits
        <5>2. urg["srv"] = "none" /\ "urg" \notin pending["srv"] /\ ~In("srv", "urg") /\ ~Contains(net["srv"], "probe")
          BY <1>1, <4>1, <5>1 DEF Single, Tok, Real, Types, Sides
        <5> QED
          BY <2>1, <2>4, <2>6, <2>8, <3>1, <5>2 DEF Single, Sides
      <4>4. InTime'
        <5>1. ASSUME Live PROVE ~Tok("cli")'
          BY <1>1, <2>8, <3>3, <4>1, <5>1 DEF InTime, Waits
        <5> QED
          BY <2>5, <2>7, <2>8, <5>1 DEF InTime
      <4>5. NoStray'
        BY <2>1, <2>2, <2>6, <2>8, <4>1 DEF NoStray
      <4>6. \A r \in Sides : Clean(r)'
        BY <2>1, <4>1 DEF Clean
      <4> QED
        BY <4>2, <4>3, <4>4, <4>5, <4>6, TwoSides
    <3> QED
      BY <2>1, <2>7, <3>4, <3>5, TwoSides DEF HInv, GivenUp, Enough
  <2>9. CASE p = "srv"
    <3>1. q = "cli"
      BY <2>9, TwoSides DEF q
    <3>2. \A r \in Sides : Tok(r)' <=> Tok(r)
      BY <2>1, <2>4, <2>6, <2>9 DEF Tok, Real
    <3>3. Beats'
      BY <2>1, <2>3, <2>4, <2>5, <2>6, <2>7, <2>9, <3>1, <3>2 DEF HInv, Beats, Sides
    <3>4. Prompt'
      <4> SUFFICES ASSUME FaultFree PROVE (\A r \in Sides : Single(r)' /\ Clean(r)') /\ InTime' /\ NoStray'
        BY <2>1 DEF Prompt, FaultFree
      <4>1. (\A r \in Sides : Single(r) /\ Clean(r)) /\ InTime /\ NoStray
        BY DEF HInv, Prompt
      <4>2. \A r \in Sides : Single(r)' /\ Clean(r)'
        BY <2>1, <2>4, <2>6, <2>7, <2>9, <4>1 DEF Single, Clean
      <4>3. InTime'
        BY <2>5, <2>7, <3>1, <3>2, <4>1 DEF InTime, Sides
      <4>4. NoStray'
        BY <2>1, <2>6, <2>9, <4>1 DEF NoStray
      <4> QED
        BY <4>2, <4>3, <4>4
    <3> QED
      BY <2>1, <2>7, <3>3, <3>4, TwoSides DEF HInv, GivenUp, Enough
  <2> QED
    BY <2>8, <2>9, TwoSides
<1> QED
  BY <1>4, <1>5, TwoSides DEF SigAlrm

LEMMA EnterBeats ==
  ASSUME HInv, NEW p \in Sides, EnterUrg(p) \/ EnterAlrm(p)
  PROVE  (Beats /\ GivenUp /\ Prompt)'
<1>1. Form /\ Types /\ stack[p] \in Stacks
  BY DEF HInv, Form, Types
<1>2. PICK h \in {"urg", "alrm"} :
        /\ h \in pending[p] /\ ~Contains(stack[p], h)
        /\ pending' = [pending EXCEPT ![p] = @ \ {h}]
        /\ stack' = [stack EXCEPT ![p] = <<h>> \o @]
        /\ loaded' = IF h = "alrm" THEN [loaded EXCEPT ![p] = nprobes[p]] ELSE loaded
        /\ IF h = "urg" /\ In(p, "alrm") THEN Fault("torn") ELSE UNCHANGED faults
  <2>1. CASE EnterUrg(p)
    BY <2>1 DEF EnterUrg, In
  <2>2. CASE EnterAlrm(p)
    <3>1. ~Contains(stack[p], "alrm")
      BY <1>1, <2>2 DEF Form, Quiet, In, EnterAlrm
    <3> QED
      BY <2>2, <3>1 DEF EnterAlrm
  <2> QED
    BY <2>1, <2>2
<1>3. UNCHANGED <<status, nprobes, net, rcv, urg, rst, out>>
  BY DEF EnterUrg, EnterAlrm, tcp, cli
<1>4. /\ <<h>> \o stack[p] = <<"urg", "alrm">> => h = "urg" /\ In(p, "alrm")
      /\ \A x \in {"urg", "alrm"} : Contains(<<h>> \o stack[p], x) <=> x = h \/ Contains(stack[p], x)
  BY <1>1, <1>2, Pushed DEF In
<1>5. /\ pending'[p] = pending[p] \ {h} /\ stack'[p] = <<h>> \o stack[p]
      /\ \A r \in Sides : r # p => /\ pending'[r] = pending[r] /\ stack'[r] = stack[r]
                                   /\ loaded'[r] = loaded[r]
      /\ h = "alrm" => loaded'[p] = nprobes[p]
      /\ h = "urg" => loaded'[p] = loaded[p]
  BY <1>1, <1>2 DEF Types
<1>6. \A r \in Sides : /\ Tok(r)' <=> Tok(r)
                       /\ Waits(r)' <=> Waits(r)
                       /\ Missed(r)' = Missed(r)
                       /\ "urg" \in pending'[r] \/ In(r, "urg")' <=> "urg" \in pending[r] \/ In(r, "urg")
  <2>1. \A x \in {"urg", "alrm"} : In(p, x)' <=> x = h \/ In(p, x)
    BY <1>4, <1>5 DEF In
  <2>2. \A r \in Sides, x \in {"urg", "alrm"} : r # p => (In(r, x)' <=> In(r, x))
    BY <1>5 DEF In
  <2>3. \A r \in Sides : "urg" \in pending'[r] \/ In(r, "urg")' <=> "urg" \in pending[r] \/ In(r, "urg")
    BY <1>2, <1>5, <2>1, <2>2
  <2>4. \A r \in Sides : Waits(r)' <=> Waits(r)
    BY <1>2, <1>5, <2>1, <2>2 DEF Waits
  <2>5. \A r \in Sides : Tok(r)' <=> Tok(r)
    BY <1>3, <2>3 DEF Tok, Real
  <2>6. Missed(p)' = Missed(p)
    <3>1. CASE h = "urg"
      BY <1>3, <1>5, <2>1, <3>1 DEF Missed
    <3>2. CASE h = "alrm"
      BY <1>2, <1>3, <1>5, <2>1, <3>2 DEF Missed, In
    <3> QED
      BY <3>1, <3>2
  <2>7. \A r \in Sides : r # p => Missed(r)' = Missed(r)
    BY <1>3, <1>5, <2>2 DEF Missed
  <2> QED
    BY <2>3, <2>4, <2>5, <2>6, <2>7
<1>7. /\ Live' = Live /\ Lost \in Nat /\ Lost' \in Nat
      /\ Lost' = IF h = "urg" /\ In(p, "alrm") THEN Lost + 1 ELSE Lost
  <2>1. Live' = Live
    BY <1>3 DEF Live, Up
  <2>2. faults.slow \in Nat /\ faults.torn \in Nat
    BY <1>1, FaultsAssumption DEF Types, Kinds
  <2>3. CASE h = "urg" /\ In(p, "alrm")
    BY <1>1, <1>2, <2>1, <2>2, <2>3, Faulted DEF Lost
  <2>4. CASE ~(h = "urg" /\ In(p, "alrm"))
    BY <1>2, <2>1, <2>2, <2>4 DEF Lost
  <2> QED
    BY <2>3, <2>4
<1>8. Beats'
  <2> SUFFICES ASSUME Live PROVE Beats'
    BY <1>7 DEF Beats
  <2>1. /\ \A r \in Sides : /\ ~rst[r] /\ ~Contains(net[r], "rst")
                            /\ urg[r] = "coming" => Contains(net[r], "probe")
        /\ Missed("cli") <= Lost + 1
        /\ Waits("cli") \/ Tok("srv") \/ Tok("cli") \/ Missed("cli") <= Lost
        /\ Missed("srv") <= Lost + 2
        /\ Waits("cli") \/ Tok("srv") \/ Missed("srv") <= Lost + 1
        /\ stack["srv"] = <<"urg", "alrm">> => Missed("srv") <= Lost + 1
    BY DEF HInv, Beats
  <2>2. \A r \in Sides : Missed(r) \in Nat
    BY <1>1, SizesAssumption DEF Types, Missed
  <2>3. stack'["srv"] = <<"urg", "alrm">> => Missed("srv") <= Lost' + 1
    <3>1. CASE p = "srv"
      <4>1. stack'["srv"] = <<"urg", "alrm">> => h = "urg" /\ In(p, "alrm")
        BY <1>4, <1>5, <3>1
      <4>2. h = "urg" /\ In(p, "alrm") => Lost' + 1 = Lost + 2
        BY <1>7
      <4> QED
        BY <2>1, <4>1, <4>2
    <3>2. CASE p # "srv"
      BY <1>5, <1>7, <2>1, <2>2, <3>2 DEF Sides
    <3> QED
      BY <3>1, <3>2
  <2>4. /\ Missed("cli") <= Lost' + 1 /\ Missed("srv") <= Lost' + 2
        /\ Waits("cli") \/ Tok("srv") \/ Tok("cli") \/ Missed("cli") <= Lost'
        /\ Waits("cli") \/ Tok("srv") \/ Missed("srv") <= Lost' + 1
    BY <1>7, <2>1, <2>2 DEF Sides
  <2>5. \A r \in Sides : /\ ~rst[r]' /\ ~Contains(net[r], "rst")'
                         /\ urg'[r] = "coming" => Contains(net'[r], "probe")
    BY <1>3, <2>1
  <2>6. "cli" \in Sides /\ "srv" \in Sides
    BY DEF Sides
  <2> QED
    BY <1>6, <2>3, <2>4, <2>5, <2>6 DEF Beats
<1>9. GivenUp'
  BY <1>3, <1>7, SizesAssumption, TwoSides DEF HInv, GivenUp, Enough, Up
<1>10. Prompt'
  <2> SUFFICES ASSUME FaultFree' PROVE (\A r \in Sides : Single(r)' /\ Clean(r)') /\ InTime' /\ NoStray'
    BY DEF Prompt
  <2>1. FaultFree
    <3>1. faults.slow \in Nat /\ faults.torn \in Nat /\ faults.ahead \in Nat /\ faults.crash \in Nat
      BY <1>1, FaultsAssumption DEF Types, Kinds
    <3> QED
      BY <1>1, <1>2, <3>1, Faulted DEF FaultFree
  <2>2. (\A r \in Sides : Single(r) /\ Clean(r)) /\ InTime /\ NoStray
    BY <2>1 DEF HInv, Prompt
  <2>3. \A r \in Sides : ~("urg" \in pending'[r] /\ In(r, "urg")') \/ ~Up(r)
    BY <1>2, <1>4, <1>5, <2>2 DEF Single, In
  <2>4. \A r \in Sides : Single(r)' /\ Clean(r)'
    BY <1>3, <1>6, <2>2, <2>3 DEF Single, Clean, Up
  <2>5. InTime'
    BY <1>6, <1>7, <2>2 DEF InTime, Sides
  <2>6. NoStray'
    BY <1>3, <2>2 DEF NoStray
  <2> QED
    BY <2>4, <2>5, <2>6
<1> QED
  BY <1>8, <1>9, <1>10
LEMMA DeliverBeats ==
  ASSUME HInv, NEW p \in Sides, Deliver(p)
  PROVE  (Beats /\ GivenUp /\ Prompt)'
<1> DEFINE s == net[p]
           item == Head(s)
<1>1. Form /\ Types /\ s \in Seq(Items) /\ s # <<>> /\ rcv[p] \in Seq({"line", "stray", "fin"})
  BY DEF HInv, Form, Types, Deliver
<1>2. /\ net' = [net EXCEPT ![p] = Tail(@)]
      /\ UNCHANGED <<status, stack, nprobes, loaded, out, faults>>
  BY DEF Deliver, cli
<1>3. net'[p] = Tail(s) /\ \A r \in Sides : r # p => net'[r] = net[r]
  BY <1>1, <1>2 DEF Types
<1>4. /\ item \in Items /\ Tail(s) \in Seq(Items)
      /\ \A x : Contains(s, x) <=> item = x \/ Contains(Tail(s), x)
      /\ Second(s) <=> Second(Tail(s)) \/ (item = "probe" /\ Contains(Tail(s), "probe"))
      /\ Second(Tail(s)) => Contains(Tail(s), "probe")
  <2> HIDE DEF s
  <2>1. Tail(s) \in Seq(Items) /\ <<>> \in Seq(Items)
    BY <1>1
  <2> QED
    BY <1>1, <2>1, AfterTail, SecondTail, Seconds
<1> HIDE DEF item, s
<1>5. /\ Live' = Live /\ Lost' = Lost
      /\ \A r \in Sides : /\ Up(r)' = Up(r) /\ (In(r, "urg")' <=> In(r, "urg"))
                          /\ (In(r, "alrm")' <=> In(r, "alrm"))
  BY <1>2 DEF Live, Up, Lost, In
<1>6. GivenUp'
  BY <1>2, TwoSides DEF HInv, GivenUp, Enough, Up, Lost
<1>7. CASE ~Up(p) \/ rst[p]
  <2>1. UNCHANGED <<rcv, urg, pending>>
    BY <1>7 DEF Deliver
  <2>2. ~Live
    BY <1>7, TwoSides DEF HInv, Beats, Live
  <2>3. Prompt'
    <3> SUFFICES ASSUME FaultFree PROVE (\A r \in Sides : Single(r)' /\ Clean(r)') /\ InTime' /\ NoStray'
      BY <1>2 DEF Prompt, FaultFree
    <3>1. (\A r \in Sides : Single(r) /\ Clean(r)) /\ NoStray
      BY DEF HInv, Prompt
    <3>2. \A r \in Sides : /\ Second(net'[r]) => Second(net[r])
                           /\ \A x : Contains(net'[r], x) => Contains(net[r], x)
      BY <1>3, <1>4 DEF s
    <3>3. \A r \in Sides : Single(r)' /\ Clean(r)'
      BY <1>2, <1>5, <2>1, <3>1, <3>2 DEF Single, Clean
    <3>4. InTime'
      BY <1>5, <2>2 DEF InTime
    <3>5. NoStray'
      BY <1>2, <2>1, <3>1, <3>2 DEF NoStray
    <3> QED
      BY <3>3, <3>4, <3>5
  <2> QED
    BY <1>5, <1>6, <2>2, <2>3 DEF Beats
<1>8. CASE Up(p) /\ ~rst[p]
  <2>1. /\ item = "probe" => /\ urg' = [urg EXCEPT ![p] = "valid"]
                             /\ pending' = [pending EXCEPT ![p] =
                                              IF urg[p] = "coming" THEN @ ELSE @ \cup {"urg"}]
                             /\ urg[p] # "valid" => rcv' = rcv
        /\ item # "probe" => urg' = urg /\ pending' = pending
        /\ item # "rst" => rst' = rst
        /\ item = "rst" => rcv' = [rcv EXCEPT ![p] = <<>>]
        /\ item \notin {"rst", "probe"} => rcv' = [rcv EXCEPT ![p] = Append(@, item)]
    BY <1>8 DEF Deliver, item, s
  <2>2. /\ \A r \in Sides : r # p => urg'[r] = urg[r] /\ pending'[r] = pending[r]
        /\ item = "probe" => /\ urg'[p] = "valid"
                             /\ pending'[p] = IF urg[p] = "coming" THEN pending[p] ELSE pending[p] \cup {"urg"}
        /\ item # "probe" => urg'[p] = urg[p] /\ pending'[p] = pending[p]
    BY <1>1, <2>1 DEF Types
  <2>3. \A r \in Sides : /\ Tok(r)' <=> Tok(r)
                         /\ Waits(r)' <=> Waits(r)
                         /\ Missed(r)' = Missed(r)
    <3>1. Tok(p)' <=> Tok(p)
      <4>1. CASE item = "probe" /\ urg[p] = "coming"
        BY <1>3, <1>4, <1>5, <2>2, <4>1 DEF Tok, Real, s
      <4>2. CASE item = "probe" /\ urg[p] # "coming"
        BY <1>3, <1>4, <1>5, <2>2, <4>2 DEF Tok, Real, s
      <4>3. CASE item # "probe"
        BY <1>3, <1>4, <1>5, <2>2, <4>3 DEF Tok, Real, s
      <4> QED
        BY <4>1, <4>2, <4>3
    <3>2. \A r \in Sides : r # p => (Tok(r)' <=> Tok(r))
      BY <1>3, <1>5, <2>2 DEF Tok, Real
    <3>3. \A r \in Sides : "alrm" \in pending'[r] <=> "alrm" \in pending[r]
      BY <2>2
    <3> QED
      BY <1>2, <1>5, <3>1, <3>2, <3>3 DEF Waits, Missed
  <2>4. Beats'
    <3> SUFFICES ASSUME Live PROVE Beats'
      BY <1>5 DEF Beats
    <3>1. \A r \in Sides : /\ ~rst[r] /\ ~Contains(net[r], "rst")
                           /\ urg[r] = "coming" => Contains(net[r], "probe")
      BY DEF HInv, Beats
    <3>2. item # "rst"
      BY <1>4, <3>1 DEF s
    <3>3. \A r \in Sides : /\ ~rst[r]' /\ ~Contains(net[r], "rst")'
                           /\ urg'[r] = "coming" => Contains(net'[r], "probe")
      BY <1>3, <1>4, <2>1, <2>2, <3>1, <3>2 DEF s
    <3>4. "cli" \in Sides /\ "srv" \in Sides
      BY DEF Sides
    <3> QED
      BY <1>2, <1>5, <2>3, <3>3, <3>4 DEF HInv, Beats
  <2>5. Prompt'
    <3> SUFFICES ASSUME FaultFree PROVE (\A r \in Sides : Single(r)' /\ Clean(r)') /\ InTime' /\ NoStray'
      BY <1>2 DEF Prompt, FaultFree
    <3>1. (\A r \in Sides : Single(r) /\ Clean(r)) /\ InTime /\ NoStray
      BY DEF HInv, Prompt
    <3>2. item # "stray" /\ (item = "probe" => urg[p] = "none" /\ ~In(p, "urg") /\ ~Contains(Tail(s), "probe"))
      BY <1>4, <1>8, <3>1 DEF NoStray, Single, s
    <3>3. Single(p)'
      <4>1. CASE item = "probe"
        BY <1>3, <1>4, <1>5, <1>8, <2>2, <3>1, <3>2, <4>1 DEF Single, s
      <4>2. CASE item # "probe"
        BY <1>3, <1>4, <1>5, <1>8, <2>2, <3>1, <4>2 DEF Single, s
      <4> QED
        BY <4>1, <4>2
    <3>4. \A r \in Sides : r # p => Single(r)'
      BY <1>3, <1>5, <2>2, <3>1 DEF Single
    <3>5. InTime'
      BY <1>5, <2>3, <3>1 DEF InTime, Sides
    <3>6. NoStray'
      <4>1. /\ \A r \in Sides : ~Contains(rcv[r], "stray") /\ ~Contains(net'[r], "stray")
            /\ ~Contains(out', "stray")
        BY <1>2, <1>3, <1>4, <3>1 DEF NoStray, s
      <4>2. ~Contains(<<>>, "stray")
        BY DEF Contains
      <4>3. item \notin {"rst", "probe"} => ~Contains(Append(rcv[p], item), "stray")
        <5>1. item \notin {"rst", "probe"} => item \in {"line", "stray", "fin"}
          BY <1>4 DEF Items
        <5> QED
          BY <1>1, <3>2, <4>1, <5>1, AfterAppend
      <4>4. \A r \in Sides : ~Contains(rcv'[r], "stray")
        <5>1. rcv \in [Sides -> Seq({"line", "stray", "fin"})]
          BY <1>1 DEF Types
        <5>2. CASE item = "probe"
          BY <2>1, <3>2, <4>1, <5>2
        <5>3. CASE item = "rst"
          BY <2>1, <4>1, <4>2, <5>1, <5>3
        <5>4. CASE item \notin {"probe", "rst"}
          BY <2>1, <4>1, <4>3, <5>1, <5>4
        <5> QED
          BY <5>2, <5>3, <5>4
      <4> QED
        BY <4>1, <4>4 DEF NoStray
    <3>7. \A r \in Sides : Clean(r)'
      BY <1>2, <3>1 DEF Clean
    <3> QED
      BY <3>3, <3>4, <3>5, <3>6, <3>7
  <2> QED
    BY <1>6, <2>4, <2>5
<1> QED
  BY <1>7, <1>8
LEMMA AnnounceBeats ==
  ASSUME HInv, NEW p \in Sides, Announce(p)
  PROVE  (Beats /\ GivenUp /\ Prompt)'
<1>1. Form /\ Types /\ net[p] \in Seq(Items)
  BY DEF HInv, Form, Types
<1>2. /\ UNCHANGED <<status, stack, nprobes, loaded, net, rcv, rst, out>>
      /\ urg[p] = "none" /\ urg' = [urg EXCEPT ![p] = "coming"]
      /\ pending' = [pending EXCEPT ![p] = @ \cup {"urg"}]
      /\ Fault("ahead")
  BY DEF Announce, cli
<1>3. Contains(net[p], "probe")
  <2> DEFINE K == {k \in DOMAIN net[p] : net[p][k] = "probe"}
  <2>1. Cardinality(K) = 1
    BY DEF Announce
  <2>2. K # {}
    <3> HIDE DEF K
    <3> QED
      BY <2>1, FS_EmptySet
  <2> QED
    BY <1>1, <2>2 DEF Contains
<1>4. /\ pending'[p] = pending[p] \cup {"urg"} /\ urg'[p] = "coming"
      /\ \A r \in Sides : r # p => pending'[r] = pending[r] /\ urg'[r] = urg[r]
  BY <1>1, <1>2 DEF Types
<1>5. /\ Live' = Live /\ Lost' = Lost
      /\ \A r \in Sides : /\ (Tok(r)' <=> Tok(r)) /\ (Waits(r)' <=> Waits(r))
                          /\ Missed(r)' = Missed(r)
  <2>1. Live' = Live /\ Lost' = Lost
    BY <1>1, <1>2, Faulted DEF Live, Up, Lost
  <2>2. Tok(p)' /\ Tok(p)
    BY <1>2, <1>3, <1>4 DEF Tok, Real
  <2>3. \A r \in Sides : r # p => (Tok(r)' <=> Tok(r))
    BY <1>2, <1>4 DEF Tok, Real, In
  <2>4. \A r \in Sides : (Waits(r)' <=> Waits(r)) /\ Missed(r)' = Missed(r)
    BY <1>2, <1>4 DEF Waits, Missed, In
  <2> QED
    BY <2>1, <2>2, <2>3, <2>4
<1>6. Beats'
  <2> SUFFICES ASSUME Live PROVE Beats'
    BY <1>5 DEF Beats
  <2>1. \A r \in Sides : /\ ~rst[r]' /\ ~Contains(net[r], "rst")'
                         /\ urg'[r] = "coming" => Contains(net'[r], "probe")
    BY <1>2, <1>3, <1>4 DEF HInv, Beats
  <2> QED
    BY <1>2, <1>5, <2>1, TwoSides DEF HInv, Beats
<1>7. GivenUp'
  BY <1>2, <1>5, TwoSides DEF HInv, GivenUp, Enough, Up
<1>8. ~FaultFree'
  <2>1. faults.ahead \in Nat
    BY <1>1, FaultsAssumption DEF Types, Kinds
  <2>2. faults'.ahead = faults.ahead + 1
    BY <1>1, <1>2, Faulted
  <2> QED
    BY <2>1, <2>2 DEF FaultFree
<1> QED
  BY <1>6, <1>7, <1>8 DEF Prompt

LEMMA SkipBeats ==
  ASSUME HInv, NEW p \in Sides, Skip(p)
  PROVE  (Beats /\ GivenUp /\ Prompt)'
<1>1. Types
  BY DEF HInv, Form
<1>2. /\ UNCHANGED <<status, pending, stack, nprobes, loaded, net, rcv, rst, out, faults>>
      /\ urg[p] = "valid" /\ urg' = [urg EXCEPT ![p] = "none"]
      /\ Up(p) /\ stack[p] = <<>> /\ "urg" \notin pending[p]
  BY DEF Skip, InLoop, signals, cli
<1>3. urg'[p] = "none" /\ \A r \in Sides : r # p => urg'[r] = urg[r]
  BY <1>1, <1>2 DEF Types
<1>4. /\ Live' = Live /\ Lost' = Lost
      /\ \A r \in Sides : /\ (Tok(r)' <=> Tok(r)) /\ (Waits(r)' <=> Waits(r))
                          /\ Missed(r)' = Missed(r)
  <2>1. Live' = Live /\ Lost' = Lost
    BY <1>2 DEF Live, Up, Lost
  <2>2. \A r \in Sides : Tok(r)' <=> Tok(r)
    BY <1>2, <1>3 DEF Tok, Real, In
  <2>3. \A r \in Sides : (Waits(r)' <=> Waits(r)) /\ Missed(r)' = Missed(r)
    BY <1>2 DEF Waits, Missed, In
  <2> QED
    BY <2>1, <2>2, <2>3
<1>5. Beats'
  <2> SUFFICES ASSUME Live PROVE Beats'
    BY <1>4 DEF Beats
  <2>1. \A r \in Sides : /\ ~rst[r]' /\ ~Contains(net[r], "rst")'
                         /\ urg'[r] = "coming" => Contains(net'[r], "probe")
    BY <1>2, <1>3 DEF HInv, Beats
  <2> QED
    BY <1>2, <1>4, <2>1, TwoSides DEF HInv, Beats
<1>6. GivenUp'
  BY <1>2, <1>4, TwoSides DEF HInv, GivenUp, Enough, Up
<1>7. ~FaultFree'
  <2>1. ~In(p, "urg")
    BY <1>2 DEF In, Contains
  <2> QED
    BY <1>2, <2>1 DEF HInv, Prompt, Single, FaultFree
<1> QED
  BY <1>5, <1>6, <1>7 DEF Prompt

LEMMA TickBeats ==
  ASSUME HInv, Tick
  PROVE  (Beats /\ GivenUp /\ Prompt)'
<1>1. Form /\ Types
  BY DEF HInv, Form
<1>2. /\ UNCHANGED <<status, stack, nprobes, loaded, net, rcv, urg, rst, out>>
      /\ \A r \in Sides : "alrm" \notin pending[r] /\ ~In(r, "alrm")
      /\ pending' = [r \in Sides |-> IF Up(r) THEN pending[r] \cup {"alrm"} ELSE {}]
      /\ Late => Fault("slow")
      /\ ~Late => faults' = faults
  BY DEF Tick, tcp, cli, In
<1>3. /\ faults.slow \in Nat /\ faults.torn \in Nat /\ Lost \in Nat /\ Lost' \in Nat
      /\ Lost' = IF Late THEN Lost + 1 ELSE Lost
  <2>1. faults.slow \in Nat /\ faults.torn \in Nat
    BY <1>1, FaultsAssumption DEF Types, Kinds
  <2>2. CASE Late
    BY <1>1, <1>2, <2>1, <2>2, Faulted DEF Lost
  <2>3. CASE ~Late
    BY <1>2, <2>1, <2>3 DEF Lost
  <2> QED
    BY <2>1, <2>2, <2>3
<1>4. /\ Live' = Live
      /\ \A r \in Sides : Up(r)' = Up(r) /\ (\A h : In(r, h)' <=> In(r, h))
  BY <1>2 DEF Live, Up, In
<1>5. \A r \in Sides : Up(r) => /\ pending'[r] = pending[r] \cup {"alrm"}
                                /\ Tok(r)' <=> Tok(r)
                                /\ Waits(r)'
                                /\ Missed(r) = nprobes[r] /\ Missed(r)' = nprobes[r] + 1
  BY <1>2, <1>4 DEF Tok, Real, Waits, Missed
<1>6. ASSUME Live, ~Late
      PROVE  \A r \in Sides : ~Tok(r)
  <2>1. \A r \in Sides : ~Contains(net[r], "probe") /\ "urg" \notin pending[r] /\ ~In(r, "urg")
    BY <1>6, TwoSides DEF Late, Live, In
  <2>2. \A r \in Sides : net[r] \in Seq(Items) /\ <<>> \in Seq(Items)
    BY <1>1 DEF Types
  <2>3. \A r \in Sides : Second(net[r]) => Contains(net[r], "probe")
    BY <2>2, Seconds
  <2> QED
    BY <2>1, <2>3 DEF Tok, Real
<1>7. Beats'
  <2> SUFFICES ASSUME Live PROVE Beats'
    BY <1>4 DEF Beats
  <2>1. "cli" \in Sides /\ "srv" \in Sides /\ Up("cli") /\ Up("srv")
    BY DEF Live, Sides
  <2>2. /\ \A r \in Sides : /\ ~rst[r] /\ ~Contains(net[r], "rst")
                            /\ urg[r] = "coming" => Contains(net[r], "probe")
        /\ Missed("cli") <= Lost + 1 /\ (Tok("srv") \/ Tok("cli") \/ Missed("cli") <= Lost)
        /\ Missed("srv") <= Lost + 2 /\ (Tok("srv") \/ Missed("srv") <= Lost + 1)
    BY <1>2, <2>1 DEF HInv, Beats, Waits
  <2>3. /\ nprobes["cli"] \in Nat /\ nprobes["srv"] \in Nat
        /\ Missed("cli") = nprobes["cli"] /\ Missed("srv") = nprobes["srv"]
        /\ Missed("cli")' = nprobes["cli"] + 1 /\ Missed("srv")' = nprobes["srv"] + 1
    BY <1>1, <1>5, <2>1, SizesAssumption DEF Types
  <2>4. Missed("cli")' <= Lost' + 1 /\ Missed("srv")' <= Lost' + 2
    <3>1. CASE Late
      <4>1. Lost' = Lost + 1
        BY <1>3, <3>1
      <4> QED
        BY <1>3, <2>2, <2>3, <4>1
    <3>2. CASE ~Late
      <4>1. Lost' = Lost /\ Missed("cli") <= Lost /\ Missed("srv") <= Lost + 1
        BY <1>3, <1>6, <2>1, <2>2, <3>2
      <4> QED
        BY <1>3, <2>3, <4>1
    <3> QED
      BY <3>1, <3>2
  <2>5. Waits("cli")'
    BY <1>5, <2>1
  <2>6. stack'["srv"] # <<"urg", "alrm">>
    <3>1. stack["srv"] \in Stacks /\ ~Contains(stack["srv"], "alrm")
      BY <1>1, <1>2, <2>1 DEF Types, In
    <3> QED
      BY <1>2, <3>1, StackForms
  <2> QED
    BY <1>2, <2>2, <2>4, <2>5, <2>6 DEF Beats
<1>8. GivenUp'
  BY <1>2, <1>3, <1>4, SizesAssumption, TwoSides DEF HInv, GivenUp, Enough
<1>9. Prompt'
  <2> SUFFICES ASSUME FaultFree' PROVE (\A r \in Sides : Single(r)' /\ Clean(r)') /\ InTime' /\ NoStray'
    BY DEF Prompt
  <2>1. ~Late
    BY <1>1, <1>2, <1>3, Faulted DEF FaultFree
  <2>2. (\A r \in Sides : Single(r) /\ Clean(r)) /\ InTime /\ NoStray
    BY <1>2, <2>1 DEF HInv, Prompt, FaultFree
  <2>3. \A r \in Sides : Single(r)' /\ Clean(r)'
    <3>1. \A r \in Sides : Up(r) => ("urg" \in pending'[r] <=> "urg" \in pending[r])
      BY <1>5
    <3> QED
      BY <1>2, <1>4, <2>2, <3>1 DEF Single, Clean
  <2>4. InTime'
    BY <1>4, <1>5, <1>6, <2>1, TwoSides DEF InTime, Live
  <2>5. NoStray'
    BY <1>2, <2>2 DEF NoStray
  <2> QED
    BY <2>3, <2>4, <2>5
<1> QED
  BY <1>7, <1>8, <1>9

LEMMA CrashBeats ==
  ASSUME HInv, NEW p \in Sides, Crash(p)
  PROVE  (Beats /\ GivenUp /\ Prompt)'
<1>1. Types /\ Peer(p) \in Sides /\ Peer(p) # p /\ Peer(Peer(p)) = p /\ \A r \in Sides : r = p \/ r = Peer(p)
  BY TwoSides DEF HInv, Form
<1>2. status' = [status EXCEPT ![p] = "crashed"] /\ Fault("crash")
  BY DEF Crash
<1>3. ~Up(p)' /\ status'[p] \notin GaveUp
  BY <1>1, <1>2 DEF Types, Up, GaveUp
<1>4. ~Live'
  <2>1. p = "cli" \/ p = "srv"
    BY TwoSides
  <2> QED
    BY <1>3, <2>1 DEF Live
<1>5. GivenUp'
  BY <1>1, <1>3 DEF GivenUp
<1>6. ~FaultFree'
  <2>1. faults.crash \in Nat
    BY <1>1, FaultsAssumption DEF Types, Kinds
  <2>2. faults'.crash = faults.crash + 1
    BY <1>1, <1>2, Faulted
  <2> QED
    BY <2>1, <2>2 DEF FaultFree
<1> QED
  BY <1>4, <1>5, <1>6 DEF Beats, Prompt

LEMMA LoopBeats ==
  ASSUME HInv,
         \/ CliRead \/ CliEof \/ CliType \/ CliShutdown \/ SrvRead \/ SrvEof
         \/ \E p \in Sides : ReadError(p)
  PROVE  (Beats /\ GivenUp /\ Prompt)'
<1> USE TwoSides
<1>1. Form /\ Types /\ \A p \in Sides : net[p] \in Seq(Items)
  BY DEF HInv, Form, Types
<1>2. \A p \in Sides, how \in Ways \ ({"up", "crashed", "recv_error"} \cup GaveUp) :
        Up(p) /\ End(p, how) /\ UNCHANGED <<out, faults>> => (Beats /\ GivenUp /\ Prompt)'
  BY EndBeats
<1>3. \A how : how \in {"returned", "premature", "done", "reset", "sigpipe"}
                 => how \in Ways \ ({"up", "crashed", "recv_error"} \cup GaveUp)
  BY DEF Ways, GaveUp
<1>4. \A t \in Seq({"line", "stray"}) : t \in Seq({"line", "stray", "fin"})
  BY SeqMonotonic
<1>5. CASE CliRead
  <2>1. /\ UNCHANGED <<status, pending, stack, nprobes, loaded, net, urg, rst, faults>>
        /\ out' = out \o Data("cli") /\ Take("cli")
    BY <1>5 DEF CliRead, signals
  <2>2. /\ Data("cli") \in Seq({"line", "stray"})
        /\ Contains(Data("cli"), "stray") => Contains(rcv["cli"], "stray")
        /\ \A q \in Sides : Contains(rcv'[q], "stray") => Contains(rcv[q], "stray")
    BY <1>1, <2>1, Taken
  <2>3. out \in Seq({"line", "stray"})
    BY <1>1 DEF Types
  <2>4. Contains(out', "stray") => Contains(out, "stray") \/ Contains(rcv["cli"], "stray")
    BY <2>1, <2>2, <2>3, AfterConcat
  <2>5. <<>> \in Seq({"line", "stray", "fin"}) /\ ~Contains(<<>>, "stray")
    BY DEF Contains
  <2>6. net'["srv"] = net["srv"] \o <<>> /\ net'["cli"] = net["cli"]
    BY <1>1, <2>1, ConcatEmptySeq
  <2> QED
    BY <2>1, <2>2, <2>4, <2>5, <2>6, StreamBeats
<1>6. CASE CliEof
  BY <1>2, <1>3, <1>6 DEF CliEof, InLoop, cli
<1>7. CASE CliType
  <2>1. InLoop("cli") /\ UNCHANGED <<stdineof, out, faults>>
    BY <1>7 DEF CliType
  <2>2. CASE ~MaySend("cli")
    BY <1>2, <1>3, <1>7, <2>1, <2>2 DEF CliType, InLoop
  <2>3. CASE MaySend("cli")
    <3>1. net' = [net EXCEPT !["srv"] = @ \o <<"line">>]
          /\ UNCHANGED <<status, pending, stack, nprobes, loaded, rcv, urg, rst>>
      BY <1>7, <2>3 DEF CliType, Send, signals
    <3>2. <<"line">> \in Seq({"line", "stray", "fin"}) /\ ~Contains(<<"line">>, "stray")
      BY DEF Contains
    <3>3. net'["cli"] = net["cli"] /\ net'["srv"] = net["srv"] \o <<"line">>
      BY <1>1, <3>1 DEF Types
    <3> QED
      BY <2>1, <3>1, <3>2, <3>3, StreamBeats
  <2> QED
    BY <2>2, <2>3
<1>8. CASE CliShutdown
  <2>1. /\ net' = net \/ net' = [net EXCEPT !["srv"] = @ \o <<"fin">>]
        /\ UNCHANGED <<status, pending, stack, nprobes, loaded, rcv, urg, rst, out, faults>>
    BY <1>8 DEF CliShutdown, Send, signals
  <2>2. <<"fin">> \in Seq({"line", "stray", "fin"}) /\ ~Contains(<<"fin">>, "stray")
        /\ <<>> \in Seq({"line", "stray", "fin"}) /\ ~Contains(<<>>, "stray")
    BY DEF Contains
  <2>3. CASE net' = net
    <3>1. net'["srv"] = net["srv"] \o <<>> /\ net'["cli"] = net["cli"]
      BY <1>1, <2>3, ConcatEmptySeq
    <3> QED
      BY <2>1, <2>2, <3>1, StreamBeats
  <2>4. CASE net' = [net EXCEPT !["srv"] = @ \o <<"fin">>]
    <3>1. net'["cli"] = net["cli"] /\ net'["srv"] = net["srv"] \o <<"fin">>
      BY <1>1, <2>4 DEF Types
    <3> QED
      BY <2>1, <2>2, <3>1, StreamBeats
  <2> QED
    BY <2>1, <2>3, <2>4
<1>9. CASE SrvRead
  <2>1. /\ net' = [net EXCEPT !["cli"] = @ \o Data("srv")] /\ Take("srv")
        /\ UNCHANGED <<status, pending, stack, nprobes, loaded, urg, rst, out, faults>>
    BY <1>9 DEF SrvRead, Send, signals, cli
  <2>2. /\ Data("srv") \in Seq({"line", "stray"})
        /\ Contains(Data("srv"), "stray") => Contains(rcv["srv"], "stray")
        /\ \A q \in Sides : Contains(rcv'[q], "stray") => Contains(rcv[q], "stray")
    BY <1>1, <2>1, Taken
  <2>3. net'["srv"] = net["srv"] /\ net'["cli"] = net["cli"] \o Data("srv")
    BY <1>1, <2>1 DEF Types
  <2> QED
    BY <1>4, <2>1, <2>2, <2>3, StreamBeats
<1>10. CASE SrvEof
  BY <1>2, <1>3, <1>10 DEF SrvEof, InLoop, cli
<1>11. ASSUME NEW p \in Sides, ReadError(p)
       PROVE  (Beats /\ GivenUp /\ Prompt)'
  BY <1>2, <1>3, <1>11 DEF ReadError, InLoop, cli
<1> QED
  BY <1>5, <1>6, <1>7, <1>8, <1>9, <1>10, <1>11
-----------------------------------------------------------------------------
(* The theorems *)

LEMMA HInit == Init => HInv
<1> SUFFICES ASSUME Init PROVE HInv
  OBVIOUS
<1>1. Form
  BY FormInit
<1>2. \A p \in Sides : /\ Up(p) /\ status[p] = "up" /\ pending[p] = {} /\ stack[p] = <<>> /\ nprobes[p] = 0
                       /\ net[p] = <<>> /\ rcv[p] = <<>> /\ urg[p] = "none" /\ ~rst[p]
  BY DEF Init, Up
<1>3. Lost = 0 /\ out = <<>>
  BY DEF Init, Lost
<1>4. (\A x : ~Contains(<<>>, x)) /\ ~Second(<<>>) /\ <<>> # <<"urg", "alrm">>
  BY DEF Contains, Second
<1>5. \A p \in Sides : /\ ~In(p, "alrm") /\ ~In(p, "urg") /\ ~Tok(p) /\ ~Waits(p) /\ Missed(p) = 0
  BY <1>2, <1>4 DEF In, Tok, Real, Waits, Missed
<1>6. Beats
  BY <1>2, <1>3, <1>4, <1>5, TwoSides DEF Beats
<1>7. GivenUp
  BY <1>2 DEF GivenUp, GaveUp
<1>8. Prompt
  BY <1>2, <1>3, <1>4, <1>5, TwoSides DEF Prompt, Single, Clean, InTime, NoStray
<1> QED
  BY <1>1, <1>6, <1>7, <1>8 DEF HInv

LEMMA HNext == HInv /\ [Next]_vars => HInv'
<1> SUFFICES ASSUME HInv, [Next]_vars PROVE HInv'
  OBVIOUS
<1>1. Form'
  BY FormNext DEF HInv
<1>2. CASE Next
  <2>1. \A p \in Sides : Handler(p) => (Beats /\ GivenUp /\ Prompt)'
    BY EnterBeats, SigUrgBeats, SigAlrmBeats DEF Handler
  <2>2. \A p \in Sides : ReadError(p) \/ Announce(p) \/ Skip(p) \/ Crash(p) \/ Deliver(p) => (Beats /\ GivenUp /\ Prompt)'
    BY LoopBeats, AnnounceBeats, SkipBeats, CrashBeats, DeliverBeats
  <2>3. (Beats /\ GivenUp /\ Prompt)'
    BY <1>2, <2>1, <2>2, LoopBeats, TickBeats DEF Next, Loop
  <2> QED
    BY <1>1, <2>3 DEF HInv
<1>3. CASE UNCHANGED vars
  <2>1. UNCHANGED <<status, pending, stack, nprobes, loaded, net, rcv, urg, rst, stdineof, typed, out, faults>>
    BY <1>3 DEF vars, signals, tcp, cli
  <2>2. <<>> \in Seq({"line", "stray", "fin"}) /\ ~Contains(<<>>, "stray")
    BY DEF Contains
  <2>3. net'["srv"] = net["srv"] \o <<>> /\ net'["cli"] = net["cli"]
    <3>1. net["srv"] \in Seq(Items)
      BY TwoSides DEF HInv, Form, Types
    <3> QED
      BY <2>1, <3>1, ConcatEmptySeq
  <2>4. (Beats /\ GivenUp /\ Prompt)'
    BY <2>1, <2>2, <2>3, TwoSides, StreamBeats
  <2> QED
    BY <1>1, <2>4 DEF HInv
<1> QED
  BY <1>2, <1>3

\* The two counters never exceed their limits by more than the one that gives up, and
\* nothing but lines and stray urgent bytes is printed, however handlers nest.
THEOREM HeartBeatTypes == Spec => []TypeOK
<1>1. HInv => TypeOK
  <2> SUFFICES ASSUME HInv PROVE TypeOK
    OBVIOUS
  <2>1. Types
    BY DEF HInv, Form
  <2>2. \A k \in 0 .. MaxProbes : k \in 0 .. MaxProbes + 1
    BY SizesAssumption
  <2>3. \A kind \in DOMAIN Bound : faults[kind] \in 0 .. Bound[kind]
    BY <2>1, FaultsAssumption DEF Types, Kinds, Bound
  <2>4. \A p \in Sides :
          /\ pending[p] \subseteq {"urg", "alrm"} /\ stack[p] \in Stacks
          /\ nprobes[p] \in 0 .. MaxProbes + 1 /\ loaded[p] \in 0 .. MaxProbes
          /\ net[p] \in Seq(Items) /\ rcv[p] \in Seq({"line", "stray", "fin"})
          /\ urg[p] \in {"none", "coming", "valid"} /\ rst[p] \in BOOLEAN
    BY <2>1, <2>2 DEF Types
  <2> QED
    BY <2>1, <2>3, <2>4 DEF TypeOK, Types, Items, Stacks, Ways
<1> QED
  BY <1>1, HInit, HNext, PTL DEF Spec

\* A process whose peer is alive gives up only after MaxProbes seconds (one less for
\* the server) in which a heartbeat was late or its reset of nprobes was lost.
THEOREM FalseAlarms == Spec => []NoFalseAlarm
<1>1. HInv => GivenUp
  BY DEF HInv
<1>2. GivenUp /\ TypeOK => NoFalseAlarm
  BY DEF GivenUp, NoFalseAlarm, Enough, Lost
<1> QED
  BY <1>1, <1>2, HInit, HNext, HeartBeatTypes, PTL DEF Spec

\* As long as no second was slow, no announcement early, no ++nprobes torn and no
\* process killed, nobody gives up a live peer, no recv(MSG_OOB) fails and no urgent
\* byte turns up among the lines.  With a limit of one the server, whose
\* alarm may go off before the probe of the same second, would give up in time; the
\* programs use five.
THEOREM PromptHeartbeats == ASSUME MaxProbes >= 2 PROVE Spec => []PromptUnconfused
<1>1. HInv => PromptUnconfused
  <2> SUFFICES ASSUME HInv, \A kind \in DOMAIN Bound : faults[kind] = 0
               PROVE  \A p \in Sides : /\ status[p] \in GaveUp => ~Up(Peer(p))
                                       /\ status[p] # "recv_error"
                                       /\ ~Contains(rcv[p] \o out, "stray")
    BY DEF PromptUnconfused
  <2>1. FaultFree
    BY DEF FaultFree, Bound
  <2>2. (\A p \in Sides : Clean(p)) /\ NoStray
    BY <2>1 DEF HInv, Prompt
  <2>3. \A p \in Sides : ~Enough(p)
    BY <2>1, SizesAssumption DEF FaultFree, Enough, Lost
  <2>4. \A p \in Sides : ~Contains(rcv[p] \o out, "stray")
    <3>1. \A p \in Sides : rcv[p] \in Seq(Items) /\ out \in Seq(Items)
      <4>1. \A p \in Sides : rcv[p] \in Seq({"line", "stray", "fin"}) /\ out \in Seq({"line", "stray"})
        BY DEF HInv, Form, Types
      <4> QED
        BY <4>1, SeqMonotonic DEF Items
    <3> QED
      BY <2>2, <3>1, AfterConcat DEF NoStray
  <2> QED
    BY <2>2, <2>3, <2>4 DEF HInv, GivenUp, Clean
<1> QED
  BY <1>1, HInit, HNext, PTL DEF Spec

-----------------------------------------------------------------------------
(* The out-of-band samples *)

\* Where the urgent mark is: behind the bytes read unless it was stepped over, and
\* behind those that arrived while it is only announced.  No urgent byte that
\* arrived is ahead of it, and those between the read point and it it replaced.
Marks ==
    /\ mark \in Urgent \cup {0} /\ mark <= sent
    /\ IF urgdata = "none" THEN mark <= copied ELSE copied < mark
    /\ urgdata = "notyet" => arrived < mark
    /\ urgdata \in {"valid", "read"} => mark <= arrived
    /\ \A u \in Urgent : u <= arrived => u <= mark
    /\ \A u \in Urgent : copied < u /\ u < mark => u \in replaced
    /\ fin => calls = Len(Ends) /\ arrived = Size

\* The byte at the mark was not read, and no recv has failed for it.
Unread == urgdata \in {"valid", "notyet"} /\ mark \notin late

\* A byte that was read was printed, and the handler of tcpserv01 is on its way to
\* one that was not.
Fetched ==
    /\ urgdata = "read" => mark \in oob
    /\ server = "tcpserv01" /\ Unread => sigurg \/ pc = "recv"
    /\ pc = "setown" => server = "tcpserv01"

\* tcpserv_select finds something behind the mark when it reads.  With justreadoob
\* set it has read no ordinary byte since the last recv, so a mark it does not look
\* at is at its read point only right behind another urgent byte.
Selected == server = "tcpserv_select" =>
    /\ pc = "recv" /\ rset => Readable
    /\ pc = "recv" \/ justreadoob => (copied = arrived => copied \in Urgent)
    /\ justreadoob /\ Unread /\ mark = copied + 1 => copied \in Urgent
    /\ pc = "read" /\ ~justreadoob /\ urgdata \in {"valid", "notyet"} => mark > copied + 1

Printed == \A i \in DOMAIN normal : normal[i] <= copied

OobInv == Accounted /\ ReadNeverBlocks /\ Marks /\ Fetched /\ Selected /\ Printed

-----------------------------------------------------------------------------
(* The sender's calls *)

LEMMA Largest ==
  ASSUME NEW N \in Nat, NEW T \in SUBSET (0 .. N), T # {}
  PROVE  \E n \in T : \A m \in T : m <= n
<1> DEFINE D == {N - n : n \in T}
<1>1. D \in SUBSET Nat /\ D # {}
  <2>1. \A n \in T : n \in Nat /\ n <= N /\ N - n \in Nat
    OBVIOUS
  <2> QED
    BY <2>1
<1>2. \E d \in D : \A e \in D : ~ (<<e, d>> \in OpToRel(<, Nat))
  <2> HIDE DEF D
  <2> QED
    BY <1>1, NatLessThanWellFounded, WFMin
<1>3. PICK d \in D : \A e \in D : ~ (e < d)
  BY <1>1, <1>2 DEF OpToRel
<1>4. PICK n \in T : d = N - n
  BY <1>3
<1>5. \A m \in T : N - m \in D
  OBVIOUS
<1>6. \A m \in T : ~ (N - m < N - n)
  BY <1>3, <1>4, <1>5
<1> QED
  BY <1>6

LEMMA EndsOf ==
         /\ Len(Ends) \in Nat \ {0} /\ Size \in Nat
         /\ \A k \in 1 .. Len(Ends) : Ends[k] \in 0 .. Size
         /\ \A k \in 1 .. Len(Ends) - 1 : Ends[k] < Ends[k + 1]
         /\ Urgent \subseteq 1 .. Size
<1>1. /\ Len(Ends) \in Nat \ {0} /\ DOMAIN Ends = 1 .. Len(Ends)
      /\ \A k \in 1 .. Len(Ends) : Ends[k] \in Nat
      /\ \A k \in 1 .. Len(Ends) - 1 : Ends[k] < Ends[k + 1]
  BY LenProperties, ElementOfSeq, EndsAssumption
<1>2. Size \in Nat
  BY <1>1 DEF Size
<1>3. \A k \in 1 .. Len(Ends) : Ends[k] <= Size
  <2> DEFINE T == {k \in 1 .. Len(Ends) : ~ (Ends[k] <= Size)}
  <2> SUFFICES ASSUME T # {} PROVE FALSE
    OBVIOUS
  <2>1. T \in SUBSET (0 .. Len(Ends)) /\ Len(Ends) \in Nat
    BY <1>1
  <2>2. PICK k \in T : \A m \in T : m <= k
    <3> HIDE DEF T
    <3> QED
      BY <2>1, Largest
  <2>3. k # Len(Ends)
    <3>1. Ends[Len(Ends)] <= Size
      BY <1>2 DEF Size
    <3> QED
      BY <2>2, <3>1
  <2>4. k \in 1 .. Len(Ends) - 1 /\ k + 1 \in 1 .. Len(Ends) /\ k + 1 \notin T
    <3>1. k \in 1 .. Len(Ends) - 1 /\ k + 1 \in 1 .. Len(Ends) /\ ~ (k + 1 <= k)
      <4>1. k \in 1 .. Len(Ends)
        BY <2>2
      <4>2. ASSUME NEW l \in Nat \ {0}, NEW j \in 1 .. l, j # l
            PROVE  j \in 1 .. l - 1 /\ j + 1 \in 1 .. l /\ ~ (j + 1 <= j)
        BY <4>2
      <4> QED
        BY <1>1, <2>3, <4>1, <4>2
    <3>2. k + 1 \in T => k + 1 <= k
      <4> HIDE DEF T
      <4> QED
        BY <2>2
    <3> QED
      BY <3>1, <3>2
  <2> QED
    BY <1>1, <1>2, <2>2, <2>4
<1>4. \A u \in Urgent : u \in 1 .. Size
  <2> SUFFICES ASSUME NEW u \in Urgent PROVE u \in 1 .. Size
    OBVIOUS
  <2>1. PICK k \in DOMAIN Ends : Ends[k] = u /\ u = (IF k = 1 THEN 0 ELSE Ends[k - 1]) + 1
    BY UrgentAssumption
  <2>2. u \in Nat /\ u <= Size
    BY <1>1, <1>3, <2>1
  <2>3. k = 1 \/ Ends[k - 1] \in Nat
    BY <1>1, <2>1
  <2> QED
    BY <1>2, <2>1, <2>2, <2>3
<1> QED
  BY <1>1, <1>2, <1>3, <1>4

LEMMA SentOf ==
  ASSUME calls \in 0 .. Len(Ends)
  PROVE  sent \in 0 .. Size /\ (calls = Len(Ends) => sent = Size)
  BY EndsOf DEF sent, Size

\* The last urgent byte among the first w.
LEMMA LastUrgent ==
  ASSUME NEW w \in 0 .. Size, NEW p, p = Max({u \in Urgent : u <= w} \cup {0})
  PROVE  /\ p \in Urgent \cup {0} /\ p \in 0 .. w
         /\ \A u \in Urgent : u <= w => u <= p
<1> DEFINE T == {u \in Urgent : u <= w} \cup {0}
<1>1. w \in Nat /\ Urgent \subseteq 1 .. Size /\ Size \in Nat
  BY EndsOf
<1>2. T \in SUBSET (0 .. w) /\ T # {}
  <2>1. 0 \in 0 .. w /\ \A u \in Urgent : u <= w => u \in 0 .. w
    BY <1>1
  <2> QED
    BY <2>1
<1> HIDE DEF T
<1>3. \E n \in T : \A m \in T : m <= n
  BY <1>1, <1>2, Largest
<1>4. \E n \in T : \A m \in T : n >= m
  BY <1>1, <1>2, <1>3
<1>5. p \in T /\ \A m \in T : p >= m
  <2>1. p = Max(T)
    BY DEF T
  <2> QED
    BY <1>4, <2>1 DEF Max
<1> QED
  BY <1>1, <1>2, <1>5 DEF T

-----------------------------------------------------------------------------
(* The sender and the network *)

\* The parts of Accounted after its types.
InOrder == \A i, j \in DOMAIN normal : i < j => normal[i] < normal[j]
AllOnce == (1 .. copied) \ Urgent = Range(normal) \ Urgent
Passed  == \A u \in Urgent : u <= copied =>
               \/ u \in oob \cup late \cup replaced
               \/ server = "tcpserv_select" /\ u - 1 \in Urgent
OutOfLine == Range(normal) \cap Urgent \subseteq replaced

LEMMA Parts == Accounted <=> OobTypeOK /\ InOrder /\ AllOnce /\ Passed /\ OutOfLine
  BY DEF Accounted, InOrder, AllOnce, Passed, OutOfLine

LEMMA Numbers ==
  ASSUME OobInv
  PROVE  /\ arrived \in 0 .. Size /\ copied \in 0 .. Size /\ mark \in 0 .. Size
         /\ sent \in 0 .. Size /\ Size \in Nat /\ copied <= arrived /\ arrived <= sent
         /\ calls \in 0 .. Len(Ends) /\ Urgent \subseteq 1 .. Size
  BY EndsOf, SentOf DEF OobInv, Accounted, OobTypeOK

LEMMA PrintedType ==
  ASSUME OobInv
  PROVE  /\ normal \in Seq(1 .. Size) /\ Len(normal) \in Nat /\ DOMAIN normal = 1 .. Len(normal)
         /\ \A i \in DOMAIN normal : normal[i] \in 1 .. Size /\ normal[i] \in Nat
<1>1. normal \in Seq(1 .. Size)
  BY DEF OobInv, Accounted, OobTypeOK
<1>2. /\ Len(normal) \in Nat /\ DOMAIN normal = 1 .. Len(normal)
      /\ \A i \in 1 .. Len(normal) : normal[i] \in 1 .. Size
  BY <1>1, LenProperties, ElementOfSeq
<1> QED
  BY <1>1, <1>2, Numbers

LEMMA InitOobInv == OobInit => OobInv
<1> SUFFICES ASSUME OobInit PROVE OobInv
  OBVIOUS
<1>1. Size \in Nat /\ Len(Ends) \in Nat \ {0} /\ Urgent \subseteq 1 .. Size
  BY EndsOf
<1>2. sent = 0 /\ calls = 0 /\ <<>> \in Seq(1 .. Size) /\ Range(<<>>) = {}
  BY EmptySeq DEF OobInit, sent, Range
<1>3. OobTypeOK
  <2>1. /\ 0 \in 0 .. Size /\ 0 \in 0 .. Len(Ends)
        /\ arrived = 0 /\ copied = 0 /\ mark = 0
    BY <1>1 DEF OobInit
  <2>2. copied <= arrived /\ arrived <= sent
    BY <1>2, <2>1
  <2> QED
    BY <1>2, <2>1, <2>2 DEF OobInit, OobTypeOK
<1>4. InOrder /\ AllOnce /\ Passed /\ OutOfLine /\ Printed
  BY <1>1, <1>2 DEF OobInit, InOrder, AllOnce, Passed, OutOfLine, Printed
<1>5. ReadNeverBlocks /\ Marks /\ Fetched /\ Selected
  BY <1>1, <1>2 DEF OobInit, ReadNeverBlocks, Marks, Fetched, Selected, Unread
<1> QED
  BY <1>3, <1>4, <1>5, Parts DEF OobInv

LEMMA SendIInv ==
  ASSUME OobInv, NextCall
  PROVE  OobInv'
<1>1. /\ calls < Len(Ends) /\ calls' = calls + 1
      /\ UNCHANGED <<server, arrived, fin, mark, urgdata, replaced, copied, owner, sigurg, pc,
                     justreadoob, rset, normal, oob, late>>
  BY DEF NextCall, kernel
<1>2. calls' \in 0 .. Len(Ends)
  BY <1>1, Numbers, EndsOf DEF OobInv
<1>3. sent' \in Nat /\ sent <= sent'
  <2>1. /\ calls \in Nat /\ calls' = calls + 1 /\ sent' = Ends[calls + 1]
        /\ Ends[calls + 1] \in Nat
    BY <1>1, <1>2, Numbers, EndsOf DEF sent
  <2>2. CASE calls = 0
    BY <2>1, <2>2 DEF sent
  <2>3. CASE calls # 0
    <3>1. calls \in 1 .. Len(Ends) - 1
      BY <1>1, <2>3, Numbers, EndsOf
    <3>2. Ends[calls] < Ends[calls + 1] /\ sent = Ends[calls] /\ Ends[calls] \in Nat
      BY <1>2, <2>3, <3>1, EndsOf DEF sent
    <3> QED
      BY <2>1, <3>2
  <2> QED
    BY <2>2, <2>3
<1>4. OobTypeOK'
  BY <1>1, <1>2, <1>3, Numbers DEF OobInv, Accounted, OobTypeOK
<1>5. Accounted'
  BY <1>1, <1>4 DEF OobInv, Accounted
<1>6. Marks'
  BY <1>1, <1>3, Numbers DEF OobInv, Marks
<1> QED
  BY <1>1, <1>2, <1>5, <1>6 DEF OobInv, ReadNeverBlocks, Readable, AtMark, Fetched, Unread,
                             Selected, Printed

\* What a segment does that brings no new mark, and what one does that brings one.
OldMark(m) ==
    /\ m > arrived /\ arrived' = m
    /\ urgdata' = IF urgdata = "notyet" /\ mark <= m THEN "valid" ELSE urgdata
    /\ UNCHANGED <<mark, replaced, copied, sigurg, late>>

NewMark(m, p) ==
    /\ p > arrived /\ (urgdata = "none" \/ p > mark) /\ arrived' = m
    /\ mark' = p
    /\ urgdata' = IF p <= m THEN "valid" ELSE "notyet"
    /\ replaced' = replaced \cup {u \in Urgent : copied < u /\ u < p}
    /\ copied' = IF AtMark /\ copied < arrived THEN mark ELSE copied
    /\ sigurg' = (sigurg \/ owner)
    /\ late' = IF owner \/ server = "tcpserv_select" THEN late ELSE late \cup {p}

LEMMA SegmentIs ==
  ASSUME OobInv, Segment
  PROVE  \E m \in arrived .. sent : \E w \in m .. sent : \E p \in Urgent \cup {0} :
            /\ p <= w /\ \A u \in Urgent : u <= w => u <= p
            /\ \/ OldMark(m) /\ (p <= arrived \/ (urgdata # "none" /\ p <= mark))
               \/ NewMark(m, p)
            /\ UNCHANGED <<server, calls, fin, owner, pc, justreadoob, rset, normal, oob>>
<1> DEFINE last(w)   == Max({u \in Urgent : u <= w} \cup {0})
           new(w)    == last(w) > arrived /\ (urgdata = "none" \/ last(w) > mark)
<1>0. PICK m \in arrived .. sent : \E w \in m .. sent :
        /\ m > arrived \/ new(w)
        /\ arrived' = m
        /\ IF new(w)
             THEN /\ mark' = last(w)
                  /\ urgdata' = IF last(w) <= m THEN "valid" ELSE "notyet"
                  /\ replaced' = replaced \cup {u \in Urgent : copied < u /\ u < last(w)}
                  /\ copied' = IF AtMark /\ copied < arrived THEN mark ELSE copied
                  /\ sigurg' = (sigurg \/ owner)
                  /\ late' = IF owner \/ server = "tcpserv_select" THEN late
                             ELSE late \cup {last(w)}
             ELSE /\ urgdata' = IF urgdata = "notyet" /\ mark <= m THEN "valid" ELSE urgdata
                  /\ UNCHANGED <<mark, replaced, copied, sigurg, late>>
  BY DEF Segment
<1>1. PICK w \in m .. sent : (m > arrived \/ new(w)) /\ (new(w) => NewMark(m, last(w)))
                               /\ (~new(w) => OldMark(m))
  BY <1>0 DEF NewMark, OldMark
<1>2. w \in 0 .. Size /\ m \in 0 .. Size
  BY Numbers
<1> DEFINE p == last(w)
<1>3. p \in Urgent \cup {0} /\ p \in 0 .. w /\ \A u \in Urgent : u <= w => u <= p
  BY <1>2, LastUrgent DEF OobInv
<1>4. new(w) <=> p > arrived /\ (urgdata = "none" \/ p > mark)
  OBVIOUS
<1>5. p <= w
  BY <1>2, <1>3
<1>6. UNCHANGED <<server, calls, fin, owner, pc, justreadoob, rset, normal, oob>>
  BY DEF Segment
<1>7. CASE new(w)
  <2>1. NewMark(m, p)
    BY <1>1, <1>7
  <2> HIDE DEF p
  <2> QED
    BY <1>3, <1>5, <1>6, <2>1
<1>8. CASE ~new(w)
  <2>1. OldMark(m)
    BY <1>1, <1>8
  <2>2. ~(p > arrived) \/ (urgdata # "none" /\ ~(p > mark))
    BY <1>4, <1>8
  <2> HIDE DEF p
  <2>3. p <= arrived \/ (urgdata # "none" /\ p <= mark)
    BY <1>3, <1>2, <2>2, Numbers
  <2> QED
    BY <1>3, <1>5, <1>6, <2>1, <2>3
<1> QED
  BY <1>7, <1>8

LEMMA OldMarkIInv ==
  ASSUME OobInv, NEW m \in arrived .. sent, NEW w \in m .. sent, NEW p \in Urgent \cup {0},
         p <= w, \A u \in Urgent : u <= w => u <= p,
         OldMark(m), p <= arrived \/ (urgdata # "none" /\ p <= mark),
         UNCHANGED <<server, calls, fin, owner, pc, justreadoob, rset, normal, oob>>
  PROVE  OobInv'
<1>0. /\ m \in 0 .. Size /\ w \in 0 .. Size /\ m <= w /\ arrived <= m /\ m <= sent
      /\ p \in 0 .. Size /\ arrived < m
  BY Numbers DEF OldMark
<1>1. /\ arrived' = m
      /\ urgdata' = IF urgdata = "notyet" /\ mark <= m THEN "valid" ELSE urgdata
      /\ UNCHANGED <<server, calls, fin, owner, pc, justreadoob, rset, normal, oob, mark,
                     replaced, copied, sigurg, late>>
  BY DEF OldMark
<1>2. sent' = sent /\ Size' = Size
  BY <1>1 DEF sent, Size
<1>3. OobTypeOK'
  <2>1. OobTypeOK /\ {arrived', copied', mark'} \subseteq 0 .. Size /\ copied' <= arrived' /\ arrived' <= sent'
    BY <1>0, <1>1, <1>2, Numbers DEF OobInv, Accounted
  <2> QED
    BY <1>1, <2>1 DEF OobTypeOK
<1>4. Accounted'
  BY <1>1, <1>3 DEF OobInv, Accounted
<1>5. Marks'
  <2>1. \A u \in Urgent : u <= arrived' => u <= mark
    <3> SUFFICES ASSUME NEW u \in Urgent, u <= m PROVE u <= mark
      BY <1>1
    <3>1. u \in 1 .. Size /\ u <= p
      BY <1>0, Numbers
    <3>2. p <= arrived => u <= arrived
      BY <1>0, <3>1, Numbers
    <3>3. p <= mark => u <= mark
      BY <1>0, <3>1, Numbers
    <3> QED
      BY <3>2, <3>3 DEF OobInv, Marks
  <2>2. ~fin
    BY <1>0, Numbers, SentOf DEF OobInv, Marks
  <2>3. /\ urgdata' = "notyet" => arrived' < mark
        /\ urgdata' \in {"valid", "read"} => mark <= arrived'
        /\ urgdata' = "none" <=> urgdata = "none"
    BY <1>0, <1>1, Numbers DEF OobInv, Marks
  <2> QED
    BY <1>1, <1>2, <2>1, <2>2, <2>3 DEF OobInv, Marks
<1>6. /\ urgdata' \in {"valid", "notyet"} <=> urgdata \in {"valid", "notyet"}
      /\ Unread' <=> Unread
      /\ AtMark' <=> AtMark
      /\ Readable => Readable'
  <2>1. urgdata' = "none" <=> urgdata = "none"
    BY <1>1
  <2>2. AtMark' <=> AtMark
    BY <1>1, <2>1 DEF AtMark
  <2>3. Readable => Readable'
    BY <1>0, <1>1, <2>2, Numbers DEF Readable
  <2> QED
    BY <1>1, <2>2, <2>3 DEF Unread
<1>7. ReadNeverBlocks' /\ Printed'
  BY <1>1, <1>6 DEF OobInv, ReadNeverBlocks, Printed
<1>8. Fetched'
  BY <1>1, <1>6 DEF OobInv, Fetched
<1>9. Selected'
  <2>1. copied # arrived'
    BY <1>0, <1>1, Numbers
  <2> QED
    BY <1>1, <1>6, <2>1 DEF OobInv, Selected
<1> QED
  BY <1>4, <1>5, <1>7, <1>8, <1>9 DEF OobInv

LEMMA NewMarkIInv ==
  ASSUME OobInv, NEW m \in arrived .. sent, NEW w \in m .. sent, NEW p \in Urgent \cup {0},
         p <= w, \A u \in Urgent : u <= w => u <= p, NewMark(m, p),
         UNCHANGED <<server, calls, fin, owner, pc, justreadoob, rset, normal, oob>>
  PROVE  OobInv'
<1>0. /\ m \in 0 .. Size /\ w \in 0 .. Size /\ m <= w /\ arrived <= m /\ m <= sent
      /\ p \in 0 .. Size /\ arrived < p /\ p <= sent
  BY Numbers DEF NewMark
<1>1. /\ arrived' = m /\ mark' = p
      /\ urgdata = "none" \/ p > mark
      /\ urgdata' = IF p <= m THEN "valid" ELSE "notyet"
      /\ replaced' = replaced \cup {u \in Urgent : copied < u /\ u < p}
      /\ copied' = IF AtMark /\ copied < arrived THEN mark ELSE copied
      /\ sigurg' = (sigurg \/ owner)
      /\ late' = IF owner \/ server = "tcpserv_select" THEN late ELSE late \cup {p}
  BY DEF NewMark
<1>2. sent' = sent /\ Size' = Size
  BY DEF sent, Size
<1>3. /\ p \in Urgent /\ copied' \in 0 .. Size /\ copied <= copied' /\ copied' <= arrived
      /\ copied' = copied \/ (copied' = copied + 1 /\ copied' = mark /\ mark \in Urgent /\ mark < p)
  <2>1. p \in Urgent
    BY <1>0, Numbers
  <2>2. CASE AtMark /\ copied < arrived
    <3>1. copied' = mark /\ mark = copied + 1 /\ urgdata # "none"
      BY <1>1, <2>2 DEF AtMark
    <3>2. mark \in Urgent /\ mark < p /\ mark <= arrived
      BY <1>0, <1>1, <2>2, <3>1, Numbers DEF OobInv, Marks
    <3> QED
      BY <2>1, <3>1, <3>2, Numbers
  <2>3. CASE ~(AtMark /\ copied < arrived)
    BY <1>1, <2>1, <2>3, Numbers
  <2> QED
    BY <2>2, <2>3
<1>4. ~fin
  BY <1>0, Numbers, SentOf DEF OobInv, Marks
<1>5. OobTypeOK'
  <2>1. {arrived', copied', mark'} \subseteq 0 .. Size /\ copied' <= arrived' /\ arrived' <= sent'
    BY <1>0, <1>1, <1>2, <1>3, Numbers
  <2>2. sigurg' \in BOOLEAN /\ late' \subseteq Urgent /\ replaced' \subseteq Urgent
    BY <1>1, <1>3 DEF OobInv, Accounted, OobTypeOK
  <2>3. urgdata' \in {"none", "notyet", "valid", "read"}
    BY <1>1
  <2> QED
    BY <1>1, <2>1, <2>2, <2>3 DEF OobInv, Accounted, OobTypeOK
<1>6. \A u \in Urgent : copied < u /\ u <= copied' => u \in replaced'
  BY <1>0, <1>1, <1>3, Numbers
<1>7. replaced \subseteq replaced' /\ late \subseteq late'
  BY <1>1
<1>8. Accounted'
  <2>1. AllOnce'
    <3>1. (1 .. copied') \ Urgent = (1 .. copied) \ Urgent
      BY <1>3, Numbers
    <3> QED
      BY <3>1, Parts DEF OobInv, AllOnce
  <2>2. Passed'
    <3> SUFFICES ASSUME NEW u \in Urgent, u <= copied'
                 PROVE  \/ u \in oob \cup late' \cup replaced'
                        \/ server = "tcpserv_select" /\ u - 1 \in Urgent
      BY DEF Passed
    <3>1. CASE u <= copied
      BY <1>7, <3>1, Parts DEF OobInv, Passed
    <3>2. CASE copied < u
      BY <1>6, <3>2
    <3> QED
      BY <1>3, <3>1, <3>2, Numbers
  <2>3. InOrder' /\ OutOfLine'
    BY <1>7, Parts DEF OobInv, InOrder, OutOfLine
  <2> QED
    BY <1>5, <2>1, <2>2, <2>3, Parts DEF Accounted, InOrder, AllOnce, Passed, OutOfLine
<1>9. Marks'
  <2>1. \A u \in Urgent : u <= arrived' => u <= mark'
    BY <1>0, <1>1, Numbers
  <2>2. \A u \in Urgent : copied' < u /\ u < mark' => u \in replaced'
    BY <1>1, <1>3, Numbers
  <2>3. urgdata' # "none" /\ copied' < mark' /\ mark' <= sent' /\ mark' \in Urgent
    BY <1>0, <1>1, <1>2, <1>3, Numbers
  <2>4. /\ urgdata' = "notyet" => arrived' < mark'
        /\ urgdata' \in {"valid", "read"} => mark' <= arrived'
    BY <1>0, <1>1
  <2> QED
    BY <1>4, <2>1, <2>2, <2>3, <2>4 DEF Marks
<1>10. Readable => Readable' /\ mark' > copied' + 1
  <2> SUFFICES ASSUME Readable PROVE Readable' /\ mark' > copied' + 1
    OBVIOUS
  <2>1. arrived > copied + (IF AtMark THEN 1 ELSE 0)
    BY <1>4 DEF Readable
  <2>2. arrived > copied'
    <3>1. CASE AtMark
      BY <1>3, <2>1, <3>1, Numbers
    <3>2. CASE ~AtMark
      BY <1>1, <2>1, <3>2, Numbers
    <3> QED
      BY <3>1, <3>2
  <2>3. mark' > copied' + 1 /\ arrived' > copied'
    BY <1>0, <1>1, <1>3, <2>2, Numbers
  <2>4. ~AtMark'
    BY <1>0, <1>1, <1>3, <2>3, Numbers DEF AtMark
  <2>5. arrived' > copied' + 0
    BY <1>0, <1>1, <1>3, <2>3, Numbers
  <2> QED
    BY <2>3, <2>4, <2>5 DEF Readable
<1>11. ReadNeverBlocks'
  BY <1>10 DEF OobInv, ReadNeverBlocks
<1>12. Fetched'
  <2>1. ASSUME server = "tcpserv01", p \notin late' PROVE sigurg'
    BY <1>1, <2>1
  <2> QED
    BY <1>1, <2>1 DEF OobInv, Fetched, Unread
<1>13. Printed'
  <2> SUFFICES ASSUME NEW i \in DOMAIN normal PROVE normal[i] <= copied'
    BY DEF Printed
  <2>1. normal[i] \in Nat /\ normal[i] <= copied
    BY PrintedType DEF OobInv, Printed
  <2> QED
    BY <1>3, <2>1, Numbers
<1>14. Selected'
  <2> SUFFICES ASSUME server = "tcpserv_select" PROVE Selected'
    BY DEF Selected
  <2>1. pc = "recv" \/ justreadoob => (copied' = arrived' => copied' \in Urgent)
    <3>1. copied' = arrived' => arrived' = arrived
      BY <1>0, <1>1, <1>3, Numbers
    <3> QED
      BY <1>3, <3>1 DEF OobInv, Selected
  <2>2. justreadoob /\ mark' = copied' + 1 => copied' \in Urgent
    <3>1. mark' = copied' + 1 => copied' = arrived
      BY <1>0, <1>1, <1>3, Numbers
    <3> QED
      BY <1>3, <3>1 DEF OobInv, Selected
  <2>3. pc = "recv" /\ rset => Readable'
    BY <1>10 DEF OobInv, Selected
  <2>4. pc = "read" => mark' > copied' + 1
    BY <1>10 DEF OobInv, ReadNeverBlocks
  <2> QED
    BY <2>1, <2>2, <2>3, <2>4 DEF Selected
<1> QED
  BY <1>8, <1>9, <1>11, <1>12, <1>13, <1>14 DEF OobInv

LEMMA FinIInv ==
  ASSUME OobInv, Fin
  PROVE  OobInv'
<1>1. /\ calls = Len(Ends) /\ arrived = Size /\ fin' = TRUE
      /\ UNCHANGED <<server, calls, arrived, copied, mark, urgdata, replaced, owner, sigurg, pc,
                     justreadoob, rset, normal, oob, late>>
  BY DEF Fin
<1>2. sent' = sent /\ Size' = Size /\ Readable'
  BY <1>1 DEF sent, Size, Readable
<1>3. Accounted'
  <2>1. OobTypeOK'
    BY <1>1, <1>2 DEF OobInv, Accounted, OobTypeOK
  <2> QED
    BY <1>1, <2>1 DEF OobInv, Accounted
<1> QED
  BY <1>1, <1>2, <1>3 DEF OobInv, ReadNeverBlocks, Marks,
                          Fetched, Unread, Selected, Printed

-----------------------------------------------------------------------------
(* The receivers *)

\* The invariant speaks of nothing that these steps change but where the receiver is.
LEMMA ControlIInv ==
  ASSUME OobInv, SetOwn \/ Interrupt \/ Eof
  PROVE  OobInv'
<1>1. /\ UNCHANGED <<server, calls, arrived, fin, copied, mark, urgdata, replaced, justreadoob,
                     rset, normal, oob, late>>
      /\ pc # "recv" /\ pc' \in {"read", "recv", "done"} /\ owner' \in {owner, TRUE}
      /\ sigurg' = sigurg \/ (sigurg' = FALSE /\ pc' = "recv")
      /\ server = "tcpserv_select" => pc' # "recv"
  BY DEF SetOwn, Interrupt, Eof, kernel
<1>2. sent' = sent /\ Size' = Size /\ (Readable' <=> Readable) /\ (Unread' <=> Unread)
  BY <1>1 DEF sent, Size, Readable, AtMark, Unread
<1>3. OobTypeOK'
  BY <1>1, <1>2 DEF OobInv, Accounted, OobTypeOK
<1>4. Accounted'
  BY <1>1, <1>3 DEF OobInv, Accounted
<1>5. pc' = "read" => server = "tcpserv01"
  BY DEF SetOwn, Interrupt, Eof, OobInv, Fetched
<1>6. Marks' /\ Fetched' /\ Printed'
  BY <1>1, <1>2 DEF OobInv, Marks, Fetched, Printed
<1>7. ReadNeverBlocks' /\ Selected'
  BY <1>1, <1>2, <1>5 DEF OobInv, ReadNeverBlocks, Selected
<1> QED
  BY <1>4, <1>6, <1>7 DEF OobInv

LEMMA SelectIInv ==
  ASSUME OobInv, Select
  PROVE  OobInv'
<1> DEFINE exceptional == ~justreadoob /\ urgdata = "valid"
<1>1. /\ pc = "select" /\ (exceptional \/ Readable)
      /\ pc' = IF exceptional THEN "recv" ELSE "read"
      /\ rset' = Readable
      /\ UNCHANGED <<server, calls, arrived, fin, copied, mark, urgdata, replaced, owner, sigurg,
                     justreadoob, normal, oob, late>>
  BY DEF Select, kernel
<1>2. sent' = sent /\ Size' = Size /\ (Readable' <=> Readable) /\ (Unread' <=> Unread)
  BY <1>1 DEF sent, Size, Readable, AtMark, Unread
<1>3. OobTypeOK'
  BY <1>1, <1>2 DEF OobInv, Accounted, OobTypeOK, Readable
<1>4. Accounted'
  BY <1>1, <1>3 DEF OobInv, Accounted
<1>5. Marks' /\ Printed' /\ ReadNeverBlocks'
  BY <1>1, <1>2 DEF OobInv, Marks, Printed, ReadNeverBlocks
<1>6. Fetched'
  BY <1>1, <1>2 DEF OobInv, Fetched, Select
<1>7. pc' = "recv" => copied # arrived
  BY <1>1, Numbers DEF OobInv, Marks
<1>8. ASSUME pc' = "read", ~justreadoob, urgdata \in {"valid", "notyet"}
      PROVE  mark > copied + 1
  <2>1. urgdata = "notyet" /\ Readable
    BY <1>1, <1>8
  <2>2. arrived < mark /\ ~fin
    BY <2>1, Numbers DEF OobInv, Marks
  <2>3. arrived > copied
    BY <2>1, <2>2, Numbers DEF Readable
  <2> QED
    BY <2>2, <2>3, Numbers
<1>9. Selected'
  BY <1>1, <1>2, <1>7, <1>8 DEF OobInv, Selected
<1> QED
  BY <1>1, <1>4, <1>5, <1>6, <1>9 DEF OobInv

LEMMA RecvOobIInv ==
  ASSUME OobInv, RecvOob
  PROVE  OobInv'
<1>1. /\ pc = "recv" /\ justreadoob' = (server = "tcpserv_select") /\ pc' = AfterRecv
      /\ UNCHANGED <<server, calls, arrived, fin, mark, replaced, copied, owner, sigurg, rset,
                     normal>>
  BY DEF RecvOob
<1>2. /\ urgdata = "valid" => oob' = oob \cup {mark} /\ urgdata' = "read" /\ late' = late
      /\ urgdata = "notyet" => late' = late \cup {mark} /\ oob' = oob /\ urgdata' = urgdata
      /\ urgdata \notin {"valid", "notyet"} => late' = late /\ oob' = oob /\ urgdata' = urgdata
  BY DEF RecvOob
<1>3. sent' = sent /\ Size' = Size /\ (Readable' <=> Readable) /\ (AtMark' <=> AtMark)
  <2>1. urgdata' = "none" <=> urgdata = "none"
    BY <1>2 DEF OobInv, Accounted, OobTypeOK
  <2> QED
    BY <1>1, <2>1 DEF sent, Size, Readable, AtMark
<1>4. urgdata \in {"valid", "notyet"} => mark \in Urgent
  BY Numbers DEF OobInv, Marks
<1>5. OobTypeOK' /\ oob \subseteq oob' /\ late \subseteq late'
  <2>1. /\ oob' \subseteq Urgent /\ late' \subseteq Urgent /\ oob \subseteq oob' /\ late \subseteq late'
        /\ urgdata' \in {"none", "notyet", "valid", "read"}
        /\ pc' \in {"read", "select"} /\ justreadoob' \in BOOLEAN
    BY <1>1, <1>2, <1>4 DEF OobInv, Accounted, OobTypeOK, AfterRecv
  <2> QED
    BY <1>1, <1>3, <2>1 DEF OobInv, Accounted, OobTypeOK
<1>6. Accounted'
  BY <1>1, <1>5 DEF OobInv, Accounted
<1>7. Marks' /\ Printed'
  BY <1>1, <1>2, <1>3 DEF OobInv, Marks, Printed
<1>8. ~Unread'
  BY <1>1, <1>2 DEF Unread, OobInv, Accounted, OobTypeOK
<1>9. Fetched'
  BY <1>1, <1>2, <1>8 DEF OobInv, Fetched, AfterRecv
<1>10. ReadNeverBlocks'
  BY <1>1, <1>3 DEF OobInv, ReadNeverBlocks, AfterRecv, Selected
<1>11. Selected'
  BY <1>1, <1>5, <1>8 DEF OobInv, Selected, AfterRecv
<1> QED
  BY <1>1, <1>6, <1>7, <1>9, <1>10, <1>11 DEF OobInv

LEMMA StepOverIInv ==
  ASSUME OobInv, StepOver
  PROVE  OobInv'
<1>1. /\ pc = "read" /\ AtMark /\ copied < arrived /\ ~sigurg /\ copied' = mark
      /\ urgdata' = "none"
      /\ UNCHANGED <<server, calls, arrived, fin, mark, replaced, owner, sigurg, pc, justreadoob,
                     rset, normal, oob, late>>
  BY DEF StepOver
<1>2. /\ urgdata # "none" /\ mark = copied + 1 /\ mark <= arrived /\ mark \in Urgent
      /\ urgdata \in {"valid", "read"}
  <2>1. urgdata # "none" /\ mark = copied + 1 /\ mark <= arrived
    BY <1>1, Numbers DEF AtMark
  <2> QED
    BY <2>1, Numbers DEF OobInv, Marks, Accounted, OobTypeOK
<1>3. sent' = sent /\ Size' = Size
  BY <1>1 DEF sent, Size
<1>4. OobTypeOK'
  <2>1. {arrived', copied', mark'} \subseteq 0 .. Size /\ copied' <= arrived' /\ arrived' <= sent'
    BY <1>1, <1>2, <1>3, Numbers
  <2> QED
    BY <1>1, <2>1 DEF OobInv, Accounted, OobTypeOK
<1>5. \/ mark \in oob \cup late
      \/ server = "tcpserv_select" /\ mark - 1 \in Urgent
  <2>1. CASE urgdata = "read" \/ mark \in late
    BY <2>1 DEF OobInv, Fetched
  <2>2. CASE urgdata = "valid" /\ mark \notin late
    <3>1. Unread
      BY <2>2 DEF Unread
    <3>2. server = "tcpserv_select"
      BY <1>1, <3>1 DEF OobInv, Fetched, Accounted, OobTypeOK
    <3>3. justreadoob
      BY <1>1, <1>2, <2>2, <3>2, Numbers DEF OobInv, Selected
    <3>4. copied \in Urgent
      BY <1>2, <3>1, <3>2, <3>3 DEF OobInv, Selected
    <3>5. mark - 1 = copied
      BY <1>2, Numbers
    <3> QED
      BY <3>2, <3>4, <3>5
  <2> QED
    BY <1>2, <2>1, <2>2
<1>6. Accounted'
  <2>1. AllOnce'
    <3>1. (1 .. copied') \ Urgent = (1 .. copied) \ Urgent
      BY <1>1, <1>2, Numbers
    <3> QED
      BY <1>1, <3>1, Parts DEF OobInv, AllOnce
  <2>2. Passed'
    <3> SUFFICES ASSUME NEW u \in Urgent, u <= mark
                 PROVE  \/ u \in oob \cup late \cup replaced
                        \/ server = "tcpserv_select" /\ u - 1 \in Urgent
      BY <1>1 DEF Passed
    <3>1. u <= copied \/ u = mark
      BY <1>2, Numbers
    <3> QED
      BY <1>5, <3>1, Parts DEF OobInv, Passed
  <2>3. InOrder' /\ OutOfLine'
    BY <1>1, Parts DEF OobInv, InOrder, OutOfLine
  <2> QED
    BY <1>4, <2>1, <2>2, <2>3, Parts DEF Accounted, InOrder, AllOnce, Passed, OutOfLine
<1>7. Marks'
  <2>1. mark <= copied' /\ \A u \in Urgent : copied' < u /\ u < mark => u \in replaced
    BY <1>1, Numbers
  <2> QED
    BY <1>1, <1>2, <1>3, <2>1 DEF OobInv, Marks
<1>8. Printed'
  <2> SUFFICES ASSUME NEW i \in DOMAIN normal PROVE normal[i] <= copied'
    BY <1>1 DEF Printed
  <2>1. normal[i] \in Nat /\ normal[i] <= copied
    BY PrintedType DEF OobInv, Printed
  <2> QED
    BY <1>1, <1>2, <2>1, Numbers
<1>9. ReadNeverBlocks'
  <2> SUFFICES ASSUME server = "tcpserv_select" PROVE Readable'
    BY <1>1 DEF ReadNeverBlocks
  <2>1. Readable
    BY <1>1 DEF OobInv, ReadNeverBlocks
  <2>2. arrived > copied + 1 \/ fin
    BY <1>1, <2>1 DEF Readable
  <2>3. ~AtMark'
    BY <1>1 DEF AtMark
  <2>4. arrived' > copied' + 0 \/ fin'
    BY <1>1, <1>2, <2>2, Numbers
  <2> QED
    BY <2>3, <2>4 DEF Readable
<1>10. Fetched' /\ Selected'
  BY <1>1, <1>2 DEF Fetched, Selected, Unread
<1> QED
  BY <1>1, <1>6, <1>7, <1>8, <1>9, <1>10 DEF OobInv

LEMMA ReadIInv ==
  ASSUME OobInv, Read
  PROVE  OobInv'
<1> DEFINE stop == IF urgdata # "none" /\ mark <= arrived THEN mark - 1 ELSE arrived
           got  == [k \in 1 .. stop - copied |-> copied + k]
<1>1. /\ pc = "read" /\ copied < stop /\ copied' = stop /\ normal' = normal \o got
      /\ justreadoob' = FALSE /\ pc' = IF server = "tcpserv01" THEN "read" ELSE "select"
      /\ UNCHANGED <<server, calls, arrived, fin, mark, urgdata, replaced, owner, sigurg, rset,
                     oob, late>>
  BY DEF Read, AfterRead, kernel
<1>2. /\ stop \in 0 .. Size /\ stop <= arrived
      /\ urgdata # "none" => stop < mark
      /\ urgdata = "none" => stop = arrived
  BY Numbers DEF OobInv, Marks
<1> HIDE DEF stop
<1>3. stop - copied \in Nat \ {0} /\ copied \in Nat /\ stop \in Nat
  BY <1>1, <1>2, Numbers
<1>4. /\ got \in Seq(1 .. Size) /\ Len(got) = stop - copied
      /\ \A k \in 1 .. stop - copied : got[k] = copied + k
  <2>1. \A k \in 1 .. stop - copied : copied + k \in 1 .. Size
    BY <1>2, <1>3, Numbers
  <2> QED
    BY <1>3, <2>1
<1> HIDE DEF got
<1>5. /\ normal' \in Seq(1 .. Size) /\ Len(normal') = Len(normal) + (stop - copied)
      /\ \A i \in 1 .. Len(normal') : normal'[i] = IF i <= Len(normal) THEN normal[i]
                                                   ELSE got[i - Len(normal)]
  <2>1. normal \in Seq(1 .. Size) /\ got \in Seq(1 .. Size)
    BY <1>4, PrintedType
  <2>2. /\ normal \o got \in Seq(1 .. Size) /\ Len(normal \o got) = Len(normal) + Len(got)
        /\ \A i \in 1 .. Len(normal) + Len(got) :
             (normal \o got)[i] = IF i <= Len(normal) THEN normal[i] ELSE got[i - Len(normal)]
    BY <2>1, ConcatProperties
  <2> QED
    BY <1>1, <1>4, <2>2
<1>6. DOMAIN normal' = 1 .. Len(normal') /\ Len(normal') \in Nat
  BY <1>5, LenProperties
<1>7. \A i \in 1 .. Len(normal') :
        \/ i \in DOMAIN normal /\ normal'[i] = normal[i]
        \/ /\ i > Len(normal) /\ i - Len(normal) \in 1 .. stop - copied
           /\ normal'[i] = copied + (i - Len(normal))
  <2> SUFFICES ASSUME NEW i \in 1 .. Len(normal'), ~(i <= Len(normal))
               PROVE  /\ i > Len(normal) /\ i - Len(normal) \in 1 .. stop - copied
                      /\ normal'[i] = copied + (i - Len(normal))
    BY <1>5, PrintedType
  <2>1. i > Len(normal) /\ i - Len(normal) \in 1 .. stop - copied
    BY <1>3, <1>5, <1>6, PrintedType
  <2> QED
    BY <1>4, <1>5, <2>1
<1>8. sent' = sent /\ Size' = Size
  BY <1>1 DEF sent, Size
<1>9. OobTypeOK'
  <2>1. /\ {arrived', copied', mark'} \subseteq 0 .. Size /\ copied' <= arrived'
        /\ arrived' <= sent'
    BY <1>1, <1>2, <1>8, Numbers
  <2> QED
    BY <1>1, <1>5, <1>8, <2>1 DEF OobInv, Accounted, OobTypeOK
<1>10. \A u \in Urgent : copied < u /\ u <= stop => u \in replaced
  <2> SUFFICES ASSUME NEW u \in Urgent, copied < u, u <= stop PROVE u \in replaced
    OBVIOUS
  <2>1. u \in Nat /\ u <= arrived
    BY <1>2, <1>3, Numbers
  <2>2. u <= mark
    BY <2>1 DEF OobInv, Marks
  <2>3. urgdata # "none"
    BY <2>1, <2>2, Numbers DEF OobInv, Marks
  <2>4. u < mark
    BY <1>2, <2>1, <2>3, Numbers
  <2> QED
    BY <2>4 DEF OobInv, Marks
<1>11. Range(normal') = Range(normal) \cup ((copied + 1) .. stop)
  <2>1. \A i \in DOMAIN normal' : normal'[i] \in Range(normal) \cup ((copied + 1) .. stop)
    <3> SUFFICES ASSUME NEW i \in 1 .. Len(normal')
                 PROVE  normal'[i] \in Range(normal) \cup ((copied + 1) .. stop)
      BY <1>6
    <3>1. CASE i \in DOMAIN normal /\ normal'[i] = normal[i]
      BY <3>1 DEF Range
    <3>2. CASE i - Len(normal) \in 1 .. stop - copied /\ normal'[i] = copied + (i - Len(normal))
      BY <1>3, <3>2
    <3> QED
      BY <1>7, <3>1, <3>2
  <2>2. Range(normal) \subseteq Range(normal')
    <3>1. \A i \in DOMAIN normal : i \in DOMAIN normal' /\ normal'[i] = normal[i]
      BY <1>3, <1>5, <1>6, PrintedType
    <3> QED
      BY <3>1 DEF Range
  <2>3. \A b \in (copied + 1) .. stop : b \in Range(normal')
    <3> SUFFICES ASSUME NEW b \in (copied + 1) .. stop PROVE b \in Range(normal')
      OBVIOUS
    <3> DEFINE i == Len(normal) + (b - copied)
    <3>1. i \in DOMAIN normal' /\ ~(i <= Len(normal)) /\ i - Len(normal) = b - copied
      BY <1>3, <1>5, <1>6, PrintedType
    <3>2. b - copied \in 1 .. stop - copied /\ copied + (b - copied) = b
      BY <1>3
    <3>3. normal'[i] = b
      BY <1>4, <1>5, <1>6, <3>1, <3>2
    <3> QED
      BY <3>1, <3>3 DEF Range
  <2> QED
    BY <2>1, <2>2, <2>3 DEF Range
<1>12. Printed'
  <2> SUFFICES ASSUME NEW i \in 1 .. Len(normal') PROVE normal'[i] <= stop
    BY <1>1, <1>6 DEF Printed
  <2>1. CASE i \in DOMAIN normal /\ normal'[i] = normal[i]
    <3>1. normal[i] \in Nat /\ normal[i] <= copied
      BY <2>1, PrintedType DEF OobInv, Printed
    <3> QED
      BY <1>1, <1>3, <2>1, <3>1
  <2>2. CASE i - Len(normal) \in 1 .. stop - copied /\ normal'[i] = copied + (i - Len(normal))
    BY <1>3, <2>2
  <2> QED
    BY <1>7, <2>1, <2>2
<1>13. InOrder'
  <2> SUFFICES ASSUME NEW i \in 1 .. Len(normal'), NEW j \in 1 .. Len(normal'), i < j
               PROVE  normal'[i] < normal'[j]
    BY <1>6 DEF InOrder
  <2>1. i \in Nat /\ j \in Nat /\ Len(normal) \in Nat /\ DOMAIN normal = 1 .. Len(normal)
    BY <1>6, PrintedType
  <2>2. CASE j \in DOMAIN normal /\ normal'[j] = normal[j]
    <3>1. i \in DOMAIN normal
      BY <2>1, <2>2
    <3>2. normal'[i] = normal[i]
      BY <1>7, <2>1, <3>1
    <3> QED
      BY <2>2, <3>1, <3>2, Parts DEF OobInv, InOrder
  <2>3. CASE j > Len(normal) /\ j - Len(normal) \in 1 .. stop - copied
             /\ normal'[j] = copied + (j - Len(normal))
    <3>1. CASE i \in DOMAIN normal /\ normal'[i] = normal[i]
      <4>1. normal[i] \in Nat /\ normal[i] <= copied
        BY <3>1, PrintedType DEF OobInv, Printed
      <4> QED
        BY <1>3, <2>1, <2>3, <3>1, <4>1
    <3>2. CASE normal'[i] = copied + (i - Len(normal))
      BY <1>3, <2>1, <2>3, <3>2
    <3> QED
      BY <1>7, <3>1, <3>2
  <2> QED
    BY <1>7, <2>2, <2>3
<1>14. Accounted'
  <2>1. AllOnce'
    <3>1. 1 .. stop = (1 .. copied) \cup ((copied + 1) .. stop)
      BY <1>1, <1>3
    <3> QED
      BY <1>1, <1>11, <3>1, Parts DEF OobInv, AllOnce
  <2>2. Passed'
    <3> SUFFICES ASSUME NEW u \in Urgent, u <= stop
                 PROVE  \/ u \in oob \cup late \cup replaced
                        \/ server = "tcpserv_select" /\ u - 1 \in Urgent
      BY <1>1 DEF Passed
    <3>1. u \in Nat
      BY Numbers
    <3>2. CASE u <= copied
      BY <3>2, Parts DEF OobInv, Passed
    <3>3. CASE copied < u
      BY <1>10, <3>3
    <3> QED
      BY <1>3, <3>1, <3>2, <3>3
  <2>3. OutOfLine'
    <3> SUFFICES ASSUME NEW u \in Urgent, u \in (copied + 1) .. stop PROVE u \in replaced
      BY <1>1, <1>11, Parts DEF OobInv, OutOfLine
    <3>1. copied < u /\ u <= stop
      BY <1>3
    <3> QED
      BY <1>10, <3>1
  <2> QED
    BY <1>9, <1>13, <2>1, <2>2, <2>3, Parts DEF Accounted, InOrder, AllOnce, Passed, OutOfLine
<1>15. Marks'
  <2>1. IF urgdata = "none" THEN mark <= stop ELSE stop < mark
    BY <1>1, <1>2, <1>3, Numbers DEF OobInv, Marks
  <2>2. \A u \in Urgent : stop < u /\ u < mark => u \in replaced
    <3> SUFFICES ASSUME NEW u \in Urgent, stop < u, u < mark PROVE u \in replaced
      OBVIOUS
    <3>1. copied < u
      BY <1>1, <1>3, Numbers
    <3> QED
      BY <3>1 DEF OobInv, Marks
  <2> QED
    BY <1>1, <1>8, <2>1, <2>2 DEF OobInv, Marks
<1>16. Unread' <=> Unread
  BY <1>1 DEF Unread
<1>17. Fetched'
  BY <1>1, <1>16 DEF OobInv, Fetched
<1>18. ReadNeverBlocks' /\ Selected'
  BY <1>1 DEF ReadNeverBlocks, Selected
<1> QED
  BY <1>1, <1>12, <1>14, <1>15, <1>17, <1>18 DEF OobInv

LEMMA NextOobInv == OobInv /\ [OobNext]_(oobvars) => OobInv'
<1> SUFFICES ASSUME OobInv, [OobNext]_(oobvars) PROVE OobInv'
  OBVIOUS
<1>1. CASE Segment
  BY <1>1, SegmentIs, OldMarkIInv, NewMarkIInv
<1>2. CASE UNCHANGED oobvars
  <2>1. UNCHANGED <<server, calls, arrived, fin, mark, urgdata, replaced, copied, owner, sigurg,
                    pc, justreadoob, rset, normal, oob, late>>
    BY <1>2 DEF oobvars, kernel
  <2>2. sent' = sent /\ Size' = Size /\ (Readable' <=> Readable) /\ (Unread' <=> Unread)
    BY <2>1 DEF sent, Size, Readable, AtMark, Unread
  <2>3. OobTypeOK'
    BY <2>1, <2>2 DEF OobInv, Accounted, OobTypeOK
  <2>4. Accounted'
    BY <2>1, <2>3 DEF OobInv, Accounted
  <2> QED
    BY <2>1, <2>2, <2>4 DEF OobInv, ReadNeverBlocks,
                            Marks, Fetched, Selected, Printed
<1> QED
  BY <1>1, <1>2, SendIInv, FinIInv, ControlIInv, SelectIInv, RecvOobIInv, StepOverIInv, ReadIInv
  DEF OobNext, Receiver

-----------------------------------------------------------------------------
(* The theorems *)

\* Ordinary bytes are printed once and in order, and an urgent byte is missed or turns
\* up among them only for a cause: no signal yet, no byte yet, a later mark, or a flag
\* that is still set right behind another one.
THEOREM BytesAccounted == OobSpec => []Accounted
<1>1. OobInit => OobInv
  BY InitOobInv
<1>2. OobInv => Accounted
  BY DEF OobInv
<1> QED
  BY <1>1, <1>2, NextOobInv, PTL DEF OobSpec

\* The selecting receiver reads only when there is something to read, whatever a new
\* mark or its own recv changed since select reported.
THEOREM SelectedReads == OobSpec => []ReadNeverBlocks
<1>1. OobInit => OobInv
  BY InitOobInv
<1>2. OobInv => ReadNeverBlocks
  BY DEF OobInv
<1> QED
  BY <1>1, <1>2, NextOobInv, PTL DEF OobSpec
=============================================================================
