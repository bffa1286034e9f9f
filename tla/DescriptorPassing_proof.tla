----------------------- MODULE DescriptorPassing_proof -----------------------
(***************************************************************************)
(* What holds of the descriptor-passing server for any number of children  *)
(* and connections and any number of faults: the types of its state, the   *)
(* agreement between the parent's view of its children and what they do,   *)
(* the assertion "no available children", that the server implements       *)
(* ConnService, and what closes when.                                      *)
(***************************************************************************)
EXTENDS DescriptorPassing, FiniteSetTheorems, TLAPS

-----------------------------------------------------------------------------
(* Types *)

LEMMA InitType == Init => TypeOK
  BY ChildrenAssumption, BoundsAssumption
  DEF Init, TypeOK, ParentTypeOK, PipesTypeOK, ChildrenTypeOK, EnvTypeOK,
      Children, Listen, Ended

LEMMA ArriveType ==
  ASSUME TypeOK, NEW c \in Conns, Arrive(c)
  PROVE  TypeOK'
<1>1. ParentTypeOK' /\ PipesTypeOK' /\ ChildrenTypeOK'
  BY DEF Arrive, TypeOK, ParentTypeOK, PipesTypeOK, ChildrenTypeOK, parent, children
<1>2. EnvTypeOK'
  BY DEF Arrive, TypeOK, EnvTypeOK
<1> QED
  BY <1>1, <1>2 DEF TypeOK

\* select reports a finite number of ready descriptors.
LEMMA FiniteChildren == IsFiniteSet(Children) /\ IsFiniteSet(Children \cup {Listen})
<1>1. IsFiniteSet(Children)
  BY ChildrenAssumption, FS_Interval DEF Children
<1> QED
  BY <1>1, FS_AddElement

LEMMA OccupyType ==
  ASSUME ParentTypeOK, NEW k \in Children, Occupy(k)
  PROVE  /\ child_status' \in [Children -> {0, 1}]
         /\ child_count' \in [Children -> Nat]
         /\ navail' \in Int
  BY DEF ParentTypeOK, Occupy

LEMMA ParentType ==
  ASSUME TypeOK, Parent
  PROVE  TypeOK'
<1> USE DEF TypeOK
<1>1. CASE Select
  <2>1. rset' \subseteq Children \cup {Listen}
    BY <1>1 DEF Select, Watched
  <2>2. nsel' \in Int
    <3>1. IsFiniteSet(rset')
      BY <2>1, FiniteChildren, FS_Subset
    <3> QED
      BY <3>1, <1>1, FS_CardinalityType DEF Select
  <2>3. ParentTypeOK'
    BY <1>1, <2>1, <2>2, ChildrenAssumption DEF Select, ParentTypeOK
  <2> QED
    BY <1>1, <2>3 DEF Select, PipesTypeOK, ChildrenTypeOK, EnvTypeOK, children
<1>2. CASE CloseConn
  <2>1. ParentTypeOK'
    BY <1>2 DEF CloseConn, CloseCopy, ParentTypeOK
  <2> QED
    BY <1>2, <2>1 DEF CloseConn, CloseCopy, PipesTypeOK, ChildrenTypeOK, EnvTypeOK, children
<1>3. CASE Skip
  <2>1. i' \in 0 .. nchildren
    BY <1>3, ChildrenAssumption DEF Skip, Children
  <2>2. ParentTypeOK'
    BY <1>3, <2>1 DEF Skip, ParentTypeOK
  <2> QED
    BY <1>3, <2>2 DEF Skip, PipesTypeOK, ChildrenTypeOK, EnvTypeOK, children
<1>4. CASE ReadByte
  <2>1. i' \in 0 .. nchildren /\ i \in Children
    BY <1>4, ChildrenAssumption DEF ReadByte, Children
  <2>2. child_status' \in [Children -> {0, 1}] /\ navail' \in Int
    BY <1>4, <2>1 DEF ReadByte, Release, ParentTypeOK
  <2>3. ParentTypeOK'
    BY <1>4, <2>1, <2>2 DEF ReadByte, ParentTypeOK
  <2>4. PipesTypeOK'
    <3>1. up[i] > 0 => up[i] - 1 \in Nat
      BY <2>1 DEF PipesTypeOK
    <3>2. up' \in [Children -> Nat]
      BY <1>4, <2>1, <3>1 DEF ReadByte, PipesTypeOK
    <3>3. reset' \in [Children -> BOOLEAN]
      <4>1. (IF up[i] > 0 THEN reset[i] ELSE FALSE) \in BOOLEAN
        BY <2>1 DEF PipesTypeOK
      <4> QED
        BY <1>4, <2>1, <4>1 DEF ReadByte, PipesTypeOK
    <3> QED
      BY <1>4, <3>2, <3>3 DEF ReadByte, PipesTypeOK
  <2> QED
    BY <1>4, <2>3, <2>4 DEF ReadByte, ChildrenTypeOK, EnvTypeOK, children
<1>5. CASE NoneAvailable
  <2>1. ParentTypeOK'
    BY <1>5 DEF NoneAvailable, End, ParentTypeOK, Ended
  <2> QED
    BY <1>5, <2>1 DEF NoneAvailable, End, PipesTypeOK, ChildrenTypeOK, EnvTypeOK, children
<1>6. CASE ChildTerminated
  <2>1. ParentTypeOK'
    BY <1>6 DEF ChildTerminated, End, ParentTypeOK, Ended
  <2> QED
    BY <1>6, <2>1 DEF ChildTerminated, End, PipesTypeOK, ChildrenTypeOK, EnvTypeOK, children
<1>7. ASSUME NEW k \in Children, Dispatch(k) PROVE TypeOK'
  <2>1. Occupy(k) /\ backlog # <<>>
    BY <1>7 DEF Dispatch
  <2>2. Head(backlog) \in Conns /\ Tail(backlog) \in Seq(Conns)
    BY <2>1 DEF EnvTypeOK
  <2>3. CASE cpc[k] = "dead"
    <3>1. ParentTypeOK'
      BY <1>7, <2>1, <2>3, OccupyType DEF Dispatch, End, ParentTypeOK, Ended
    <3> QED
      BY <1>7, <2>3, <3>1 DEF Dispatch, End, PipesTypeOK, ChildrenTypeOK, EnvTypeOK, children
  <2>4. CASE cpc[k] # "dead"
    <3>1. ParentTypeOK'
      BY <1>7, <2>1, <2>2, <2>4, OccupyType DEF Dispatch, Send, ParentTypeOK
    <3>2. PipesTypeOK'
      <4>1. Append(down[k], Head(backlog)) \in Seq(Conns)
        BY <2>2 DEF PipesTypeOK
      <4>2. down' = [down EXCEPT ![k] = Append(down[k], Head(backlog))]
        BY <1>7, <2>4 DEF Dispatch, Send, PipesTypeOK
      <4> QED
        BY <1>7, <4>1, <4>2 DEF Dispatch, PipesTypeOK
    <3> QED
      BY <1>7, <2>2, <2>4, <3>1, <3>2 DEF Dispatch, Send, ChildrenTypeOK, EnvTypeOK, children
  <2> QED
    BY <2>3, <2>4
<1>8. ASSUME NEW k \in Children, AcceptFails(k) PROVE TypeOK'
  <2>1. ParentTypeOK'
    BY <1>8, OccupyType DEF AcceptFails, ParentTypeOK
  <2>2. backlog' \in Seq(Conns)
    <3>1. backlog # <<>> => Tail(backlog) \in Seq(Conns)
      BY DEF EnvTypeOK
    <3>2. backlog' = backlog \/ (backlog # <<>> /\ backlog' = Tail(backlog))
      BY <1>8 DEF AcceptFails
    <3> QED
      BY <3>1, <3>2 DEF EnvTypeOK
  <2>3. faults' \in [crash : Nat, error : Nat, accept : Nat] /\ arrived' = arrived
    BY <1>8 DEF AcceptFails, EnvTypeOK
  <2>4. EnvTypeOK'
    BY <2>2, <2>3 DEF EnvTypeOK
  <2> QED
    BY <1>8, <2>1, <2>4 DEF AcceptFails, PipesTypeOK, ChildrenTypeOK, children
<1> QED
  BY <1>1, <1>2, <1>3, <1>4, <1>5, <1>6, <1>7, <1>8 DEF Parent

LEMMA DieType ==
  ASSUME TypeOK, NEW k \in Children, Die(k)
  PROVE  /\ cpc' \in [Children -> {"recv", "serve", "notify", "exit", "dead"}]
         /\ serving' \in [Children -> Conns \cup {None}]
         /\ reset' \in [Children -> BOOLEAN]
         /\ down' \in [Children -> Seq(Conns)]
  BY DEF TypeOK, PipesTypeOK, ChildrenTypeOK, Die

LEMMA ChildType ==
  ASSUME TypeOK, NEW k \in Children, Child(k) \/ Error(k) \/ Crash(k)
  PROVE  TypeOK'
<1>0. (UNCHANGED parent => ParentTypeOK') /\ (UNCHANGED <<backlog, arrived, faults>> => EnvTypeOK')
  BY DEF TypeOK, ParentTypeOK, EnvTypeOK, parent
<1> USE DEF TypeOK
<1>1. CASE Receive(k)
  <2>1. Head(down[k]) \in Conns /\ Tail(down[k]) \in Seq(Conns)
    BY <1>1 DEF Receive, PipesTypeOK
  <2>2. PipesTypeOK'
    BY <1>1, <2>1 DEF Receive, PipesTypeOK
  <2>3. ChildrenTypeOK'
    BY <1>1, <2>1 DEF Receive, ChildrenTypeOK
  <2> QED
    BY <1>0, <1>1, <2>2, <2>3 DEF Receive
<1>2. CASE Orphaned(k)
  <2>1. PipesTypeOK' /\ ChildrenTypeOK'
    BY <1>2, DieType DEF Orphaned, PipesTypeOK, ChildrenTypeOK
  <2> QED
    BY <1>0, <1>2, <2>1 DEF Orphaned
<1>8. CASE OrphanReset(k)
  <2>1. CASE Die(k)
    BY <1>0, <1>8, <2>1, DieType DEF OrphanReset, PipesTypeOK, ChildrenTypeOK
  <2>2. CASE ~Die(k)
    <3>1. ChildrenTypeOK'
      BY <1>8, <2>2 DEF OrphanReset, ChildrenTypeOK
    <3> QED
      BY <1>0, <1>8, <2>2, <3>1 DEF OrphanReset, PipesTypeOK
  <2> QED
    BY <2>1, <2>2
<1>3. CASE Serve(k)
  <2>1. PipesTypeOK' /\ ChildrenTypeOK'
    BY <1>3 DEF Serve, PipesTypeOK, ChildrenTypeOK
  <2> QED
    BY <1>0, <1>3, <2>1 DEF Serve
<1>4. CASE Notify(k)
  <2>1. CASE ParentEndClosed(k)
    BY <1>0, <1>4, <2>1, DieType DEF Notify, PipesTypeOK, ChildrenTypeOK
  <2>2. CASE ~ParentEndClosed(k)
    <3>1. PipesTypeOK'
      BY <1>4, <2>2 DEF Notify, PipesTypeOK
    <3>2. ChildrenTypeOK'
      BY <1>4, <2>2 DEF Notify, ChildrenTypeOK
    <3> QED
      BY <1>0, <1>4, <3>1, <3>2 DEF Notify
  <2> QED
    BY <2>1, <2>2
<1>5. CASE Exit(k)
  <2>1. PipesTypeOK' /\ ChildrenTypeOK'
    BY <1>5, DieType DEF Exit, PipesTypeOK, ChildrenTypeOK
  <2> QED
    BY <1>0, <1>5, <2>1 DEF Exit
<1>6. CASE Error(k)
  <2>1. PipesTypeOK' /\ ChildrenTypeOK'
    BY <1>6, ErrTextAssumption DEF Error, PipesTypeOK, ChildrenTypeOK
  <2>2. EnvTypeOK'
    BY <1>6 DEF Error, EnvTypeOK
  <2> QED
    BY <1>0, <1>6, <2>1, <2>2 DEF Error
<1>7. CASE Crash(k)
  <2>1. PipesTypeOK' /\ ChildrenTypeOK'
    BY <1>7, DieType DEF Crash, PipesTypeOK, ChildrenTypeOK
  <2>2. EnvTypeOK'
    BY <1>7 DEF Crash, EnvTypeOK
  <2> QED
    BY <1>0, <1>7, <2>1, <2>2 DEF Crash
<1> QED
  BY <1>1, <1>2, <1>3, <1>4, <1>5, <1>6, <1>7, <1>8 DEF Child

LEMMA StutterType == TypeOK /\ UNCHANGED vars => TypeOK'
  BY DEF vars, TypeOK, ParentTypeOK, PipesTypeOK, ChildrenTypeOK, EnvTypeOK,
         parent, children

\* Every value of the state has its type: in particular a child that serves
\* holds a connection and the loop index stays within the table of children.
THEOREM TypeCorrect == Spec => []TypeOK
<1>1. TypeOK /\ [Next]_vars => TypeOK'
  BY ArriveType, ParentType, ChildType, StutterType DEF Next
<1> QED
  BY InitType, <1>1, PTL DEF Spec

-----------------------------------------------------------------------------
(* The parent's view of its children *)

\* Listen is watched only when a child is available, and nothing changes navail
\* between that test in front of select and accept.
AcceptHasChild == ppc = "accept" => navail > 0

AvailInv == TypeOK /\ AcceptHasChild /\ AvailabilityOK

LEMMA TokensNat ==
  ASSUME TypeOK, NEW k \in Children
  PROVE  /\ Len(down[k]) \in Nat /\ up[k] \in Nat
         /\ Held(k) \in {0, 1} /\ Failed(k) \in {0, 1}
         /\ Tokens(k) \in Nat
  BY DEF TypeOK, PipesTypeOK, Tokens, Held, Failed

LEMMA FiniteIdle == IsFiniteSet(Idle) /\ Cardinality(Idle) \in Nat
  BY FiniteChildren, FS_Subset, FS_CardinalityType DEF Idle

\* What is under way with a child depends on its pipe and its place only.
LEMMA SameTokens ==
  ASSUME NEW k \in Children, down'[k] = down[k], up'[k] = up[k],
         reset'[k] = reset[k], cpc'[k] = cpc[k]
  PROVE  Tokens(k)' = Tokens(k)
  BY DEF Tokens, Held, Failed

\* Marking an idle child busy keeps navail the number of idle children.
LEMMA OccupyAvail ==
  ASSUME TypeOK, NEW k \in Idle, Occupy(k)
  PROVE  /\ NavailCounts => NavailCounts'
         /\ child_status'[k] = 1
         /\ \A j \in Children \ {k} : child_status'[j] = child_status[j]
<1>1. child_status \in [Children -> {0, 1}] /\ navail \in Int /\ k \in Children
  BY DEF TypeOK, ParentTypeOK, Idle
<1>2. Idle' = Idle \ {k}
  BY <1>1 DEF Occupy, Idle
<1>3. Cardinality(Idle \ {k}) = Cardinality(Idle) - 1
  BY FiniteIdle, FS_RemoveElement
<1> QED
  BY <1>1, <1>2, <1>3, FiniteIdle DEF Occupy, NavailCounts

\* So does marking a busy one idle.
LEMMA ReleaseAvail ==
  ASSUME TypeOK, NEW k \in Children \ Idle, Release(k)
  PROVE  /\ NavailCounts => NavailCounts'
         /\ child_status'[k] = 0
         /\ \A j \in Children \ {k} : child_status'[j] = child_status[j]
<1>1. child_status \in [Children -> {0, 1}] /\ navail \in Int
  BY DEF TypeOK, ParentTypeOK
<1>2. Idle' = Idle \cup {k}
  BY <1>1 DEF Release, Idle
<1>3. Cardinality(Idle \cup {k}) = Cardinality(Idle) + 1
  BY FiniteIdle, FS_AddElement
<1> QED
  BY <1>1, <1>2, <1>3, FiniteIdle DEF Release, NavailCounts

LEMMA InitAvail == Init => AvailInv
<1> SUFFICES ASSUME Init PROVE AvailInv
  OBVIOUS
<1>1. TypeOK
  BY InitType
<1>2. AcceptHasChild
  BY DEF Init, AcceptHasChild
<1>3. TokensBounded
  BY DEF Init, TokensBounded, Tokens, Held, Failed
<1>4. NavailCounts
  <2>1. Idle = 0 .. nchildren - 1
    BY DEF Init, Idle, Children
  <2>2. Cardinality(0 .. nchildren - 1) = nchildren
    BY ChildrenAssumption, FS_Interval
  <2> QED
    BY <2>1, <2>2 DEF Init, NavailCounts
<1> QED
  BY <1>1, <1>2, <1>3, <1>4 DEF AvailInv, AvailabilityOK

\* A connection goes to a child with nothing under way: one descriptor then is.
LEMMA DispatchAvail ==
  ASSUME TypeOK, TokensBounded, NavailCounts, NEW k \in Children, Dispatch(k)
  PROVE  TokensBounded' /\ NavailCounts'
<1>1. k \in Idle /\ Occupy(k) /\ Tokens(k) <= 0
  BY DEF Dispatch, TokensBounded, Idle
<1>2. Tokens(k)' <= 1
  <2>1. CASE cpc[k] = "dead"
    <3>1. Tokens(k)' = Tokens(k)
      BY <2>1, SameTokens DEF Dispatch, children
    <3> QED
      BY <1>1, <3>1, TokensNat
  <2>2. CASE cpc[k] # "dead"
    <3>1. backlog \in Seq(Conns) /\ backlog # <<>> /\ down \in [Children -> Seq(Conns)]
      BY DEF Dispatch, TypeOK, EnvTypeOK, PipesTypeOK
    <3>2. down'[k] = Append(down[k], Head(backlog))
      BY <2>2, <3>1 DEF Dispatch, Send
    <3>3. Len(down'[k]) = Len(down[k]) + 1 /\ Len(down[k]) \in Nat
      BY <3>1, <3>2
    <3>4. Held(k)' = Held(k) /\ Failed(k)' = Failed(k) /\ up'[k] = up[k]
      BY DEF Dispatch, children, Held, Failed
    <3>5. up[k] \in Nat /\ Held(k) \in {0, 1} /\ Failed(k) \in {0, 1}
      BY TokensNat
    <3>6. Tokens(k)' = Tokens(k) + 1
      BY <3>3, <3>4, <3>5 DEF Tokens
    <3> QED
      BY <1>1, <3>6, TokensNat
  <2> QED
    BY <2>1, <2>2
<1>3. ASSUME NEW j \in Children \ {k} PROVE Tokens(j)' = Tokens(j)
  <2>1. down'[j] = down[j]
    BY DEF Dispatch, Send, TypeOK, PipesTypeOK
  <2> QED
    BY <2>1, SameTokens DEF Dispatch, children
<1> QED
  BY <1>1, <1>2, <1>3, OccupyAvail DEF TokensBounded

\* The parent's other steps: a failed accept leaves a busy child with nothing
\* under way, and a byte frees the child it was the only thing under way with.
LEMMA ParentAvail ==
  ASSUME TypeOK, AcceptHasChild, TokensBounded, NavailCounts, Parent
  PROVE  TokensBounded' /\ NavailCounts'
<1>0. ASSUME UNCHANGED <<down, up, reset, cpc>>
      PROVE  \A j \in Children : Tokens(j)' = Tokens(j)
  BY <1>0 DEF Tokens, Held, Failed
<1>1. ASSUME UNCHANGED <<navail, child_status, down, up, reset, cpc>>
      PROVE  TokensBounded' /\ NavailCounts'
  BY <1>0, <1>1 DEF TokensBounded, NavailCounts, Idle
<1>2. CASE Select \/ CloseConn \/ Skip \/ NoneAvailable \/ ChildTerminated
  BY <1>1, <1>2 DEF Select, CloseConn, CloseCopy, Skip, NoneAvailable, ChildTerminated, children
<1>3. CASE ReadByte
  <2>0. PICK k \in Children : k = i
    BY <1>3 DEF ReadByte
  <2>1. Release(k) /\ ~ReadsEof(k)
    BY <1>3, <2>0 DEF ReadByte
  <2>2. Tokens(k) <= child_status[k] /\ child_status[k] \in {0, 1}
    BY DEF TypeOK, ParentTypeOK, TokensBounded
  <2>3. up[k] + Failed(k) >= 1
    BY <2>1, TokensNat DEF ReadsEof, Failed
  <2>4. /\ child_status[k] = 1 /\ Len(down[k]) = 0 /\ Held(k) = 0
        /\ up[k] + Failed(k) = 1
    BY <2>2, <2>3, TokensNat DEF Tokens
  <2>5. Tokens(k)' = 0
    <3>1. /\ up' = [up EXCEPT ![k] = IF up[k] > 0 THEN up[k] - 1 ELSE up[k]]
          /\ reset' = [reset EXCEPT ![k] = IF up[k] > 0 THEN reset[k] ELSE FALSE]
          /\ down' = down /\ cpc' = cpc
      BY <1>3, <2>0 DEF ReadByte, TypeOK, PipesTypeOK, children
    <3>2. up'[k] = 0 /\ ~reset'[k]
      <4>1. up'[k] = IF up[k] > 0 THEN up[k] - 1 ELSE up[k]
        BY <3>1 DEF TypeOK, PipesTypeOK
      <4>2. reset'[k] = IF up[k] > 0 THEN reset[k] ELSE FALSE
        BY <3>1 DEF TypeOK, PipesTypeOK
      <4>3. up[k] \in Nat /\ Failed(k) \in {0, 1}
        BY TokensNat
      <4>4. CASE up[k] = 0
        BY <4>1, <4>2, <4>4
      <4>5. CASE up[k] # 0
        BY <2>4, <4>1, <4>2, <4>3, <4>5 DEF Failed
      <4> QED
        BY <4>4, <4>5
    <3>3. Held(k)' = 0 /\ Failed(k)' = 0
      BY <2>4, <3>1, <3>2 DEF Held, Failed
    <3> QED
      BY <2>4, <3>1, <3>2, <3>3 DEF Tokens
  <2>6. ASSUME NEW j \in Children \ {k} PROVE Tokens(j)' = Tokens(j)
    BY <1>3, <2>0, SameTokens DEF ReadByte, TypeOK, PipesTypeOK, children
  <2>7. k \in Children \ Idle
    BY <2>4 DEF Idle
  <2> QED
    BY <2>1, <2>5, <2>6, <2>7, ReleaseAvail DEF TokensBounded
<1>4. ASSUME NEW k \in Children, Dispatch(k) PROVE TokensBounded' /\ NavailCounts'
  BY <1>4, DispatchAvail
<1>5. ASSUME NEW k \in Children, AcceptFails(k) PROVE TokensBounded' /\ NavailCounts'
  <2>1. k \in Idle /\ Occupy(k)
    BY <1>5 DEF AcceptFails
  <2>2. \A j \in Children : Tokens(j)' = Tokens(j)
    BY <1>0, <1>5 DEF AcceptFails, children
  <2>3. child_status[k] = 0 /\ Tokens(k) \in Nat
    BY <2>1, TokensNat DEF Idle
  <2> QED
    BY <2>1, <2>2, <2>3, OccupyAvail DEF TokensBounded
<1> QED
  BY <1>2, <1>3, <1>4, <1>5 DEF Parent

\* A child that goes takes what it held with it; a descriptor in flight to it
\* becomes the error of the parent's next read.
LEMMA DieTokens ==
  ASSUME TypeOK, NEW k \in Children, Die(k), UNCHANGED up
  PROVE  \A j \in Children : Tokens(j)' <= Tokens(j)
<1>1. down'[k] = <<>> /\ Held(k)' = 0 /\ up'[k] = up[k]
  BY DEF Die, Held, TypeOK, PipesTypeOK, ChildrenTypeOK
<1>2. Failed(k)' = IF down[k] # <<>> THEN 1 ELSE 0
  BY DEF Die, Failed, TypeOK, PipesTypeOK
<1>3. down[k] # <<>> => Len(down[k]) >= 1
  BY DEF TypeOK, PipesTypeOK
<1>4. Tokens(k)' <= Tokens(k)
  BY <1>1, <1>2, <1>3, TokensNat DEF Tokens
<1>5. ASSUME NEW j \in Children \ {k} PROVE Tokens(j)' = Tokens(j)
  BY SameTokens DEF Die, TypeOK, PipesTypeOK, ChildrenTypeOK
<1> QED
  BY <1>4, <1>5, TokensNat

\* No step of a child puts more under way while the parent is there; only a
\* diagnostic would.
LEMMA ChildTokens ==
  ASSUME TypeOK, ParentUp, NoDiagnostic',
         NEW k \in Children, Child(k) \/ Error(k) \/ Crash(k)
  PROVE  /\ NoDiagnostic
         /\ \A j \in Children : Tokens(j)' <= Tokens(j)
<1> DEFINE Shrinks == \A j \in Children : Tokens(j)' <= Tokens(j)
<1>0. ASSUME Tokens(k)' <= Tokens(k),
             \A j \in Children \ {k} : /\ down'[j] = down[j] /\ up'[j] = up[j]
                                       /\ reset'[j] = reset[j] /\ cpc'[j] = cpc[j]
      PROVE  Shrinks
  BY <1>0, SameTokens, TokensNat
<1> USE DEF TypeOK, PipesTypeOK, ChildrenTypeOK
<1>1. CASE Receive(k)
  <2>1. Len(down'[k]) = Len(down[k]) - 1
    BY <1>1 DEF Receive
  <2>2. Held(k) = 0 /\ Held(k)' = 1 /\ up'[k] = up[k] /\ Failed(k)' = Failed(k)
    BY <1>1 DEF Receive, Held, Failed
  <2>3. Tokens(k)' <= Tokens(k)
    BY <2>1, <2>2, TokensNat DEF Tokens
  <2> QED
    BY <1>0, <1>1, <2>3 DEF Receive, NoDiagnostic
<1>2. CASE Orphaned(k) \/ Exit(k)
  BY <1>2, DieTokens DEF Orphaned, Exit, NoDiagnostic
<1>3. CASE Serve(k)
  <2>1. Held(k) = 1 /\ Held(k)' = 1 /\ Failed(k)' = Failed(k)
    BY <1>3 DEF Serve, Held, Failed
  <2>2. Tokens(k)' <= Tokens(k)
    BY <1>3, <2>1, TokensNat DEF Serve, Tokens
  <2> QED
    BY <1>0, <1>3, <2>2 DEF Serve, NoDiagnostic
<1>4. CASE Notify(k)
  <2>1. CASE ParentEndClosed(k)
    BY <1>4, <2>1, DieTokens DEF Notify, NoDiagnostic
  <2>2. CASE ~ParentEndClosed(k)
    <3>1. Held(k) = 1 /\ Held(k)' = 0 /\ Failed(k)' = Failed(k)
      BY <1>4, <2>2 DEF Notify, Held, Failed
    <3>2. up'[k] = up[k] + 1 /\ down'[k] = down[k]
      BY <1>4, <2>2 DEF Notify
    <3>3. Tokens(k)' <= Tokens(k)
      BY <3>1, <3>2, TokensNat DEF Tokens
    <3> QED
      BY <1>0, <1>4, <2>2, <3>3 DEF Notify, NoDiagnostic
  <2> QED
    BY <2>1, <2>2
<1>5. CASE Error(k)
  <2>1. ErrText = 0 /\ NoDiagnostic
    BY <1>5 DEF Error, NoDiagnostic, EnvTypeOK
  <2>2. Held(k) = 1 /\ Held(k)' = 1 /\ Failed(k)' = Failed(k)
    BY <1>5 DEF Error, Held, Failed
  <2>3. up'[k] = up[k] /\ down'[k] = down[k]
    BY <1>5, <2>1 DEF Error
  <2>4. Tokens(k)' <= Tokens(k)
    BY <2>2, <2>3, TokensNat DEF Tokens
  <2> QED
    BY <1>0, <1>5, <2>1, <2>4 DEF Error
<1>6. CASE Crash(k)
  <2>1. NoDiagnostic
    BY <1>6 DEF Crash, NoDiagnostic, EnvTypeOK
  <2> QED
    BY <1>6, <2>1, DieTokens DEF Crash
<1>7. ~OrphanReset(k)
  BY DEF OrphanReset, ParentEndClosed
<1> QED
  BY <1>1, <1>2, <1>3, <1>4, <1>5, <1>6, <1>7 DEF Child

\* Only Select leads to accept, and only with a child available.
LEMMA AcceptHasChildStep ==
  ASSUME TypeOK, AcceptHasChild, [Next]_vars
  PROVE  AcceptHasChild'
<1>1. CASE Select
  <2>1. Listen \notin Children
    BY ChildrenAssumption DEF Listen, Children
  <2> QED
    BY <1>1, <2>1 DEF Select, Watched, AcceptHasChild, TypeOK, ParentTypeOK
<1>2. CASE CloseConn \/ Skip \/ ReadByte \/ NoneAvailable \/ ChildTerminated
  BY <1>2 DEF CloseConn, CloseCopy, Skip, ReadByte, NoneAvailable, ChildTerminated, End, AcceptHasChild
<1>3. CASE \E k \in Children : Dispatch(k) \/ AcceptFails(k)
  BY <1>3 DEF Dispatch, AcceptFails, End, AcceptHasChild
<1>4. CASE UNCHANGED parent
  BY <1>4 DEF parent, AcceptHasChild
<1>5. CASE \E c \in Conns : Arrive(c)
  BY <1>4, <1>5 DEF Arrive
<1>6. CASE \E k \in Children : Child(k) \/ Error(k) \/ Crash(k)
  BY <1>4, <1>6 DEF Child, Receive, Orphaned, OrphanReset, Serve, Notify, Exit, Error, Crash
<1> QED
  BY <1>1, <1>2, <1>3, <1>4, <1>5, <1>6 DEF Next, Parent, vars

LEMMA AvailStep == AvailInv /\ [Next]_vars => AvailInv'
<1> SUFFICES ASSUME AvailInv, [Next]_vars PROVE AvailInv'
  OBVIOUS
<1> USE DEF AvailInv
<1>1. TypeOK'
  BY ArriveType, ParentType, ChildType, StutterType DEF Next
<1>2. AcceptHasChild'
  BY AcceptHasChildStep
<1>3. AvailabilityOK'
  <2>1. CASE UNCHANGED <<ppc, navail, child_status, down, up, reset, cpc, faults>>
    BY <2>1, SameTokens DEF ParentUp, AvailabilityOK, NoDiagnostic, TokensBounded, NavailCounts, Idle
  <2>2. CASE Parent
    <3>1. faults'.error = faults.error
      <4>1. CASE UNCHANGED faults
        BY <4>1
      <4>2. CASE \E k \in Children : AcceptFails(k)
        BY <4>2 DEF AcceptFails, TypeOK, EnvTypeOK
      <4> QED
        BY <2>2, <4>1, <4>2 DEF Parent, Select, CloseConn, CloseCopy, Skip, ReadByte, NoneAvailable,
                                ChildTerminated, Dispatch
    <3>2. ParentUp
      BY <2>2 DEF Parent, Select, CloseConn, CloseCopy, Skip, ReadByte, NoneAvailable, ChildTerminated,
                  Dispatch, AcceptFails, ParentUp, Ended
    <3> QED
      BY <2>2, <3>1, <3>2, ParentAvail DEF AvailabilityOK, NoDiagnostic
  <2>3. ASSUME NEW k \in Children, Child(k) \/ Error(k) \/ Crash(k) PROVE AvailabilityOK'
    <3>1. UNCHANGED parent
      BY <2>3 DEF Child, Receive, Orphaned, OrphanReset, Serve, Notify, Exit, Error, Crash
    <3>2. NavailCounts => NavailCounts'
      BY <3>1 DEF parent, NavailCounts, Idle
    <3>3. NoDiagnostic' /\ ParentUp /\ TokensBounded => TokensBounded'
      <4> SUFFICES ASSUME NoDiagnostic', ParentUp, TokensBounded, NEW j \in Children
                   PROVE  Tokens(j)' <= child_status'[j]
        BY DEF TokensBounded
      <4>1. Tokens(j)' <= Tokens(j)
        BY <2>3, ChildTokens
      <4>2. child_status'[j] = child_status[j] /\ child_status[j] \in {0, 1}
        BY <3>1 DEF parent, TypeOK, ParentTypeOK
      <4>3. Tokens(j)' \in Nat
        BY <1>1 DEF TypeOK, PipesTypeOK, Tokens, Held, Failed
      <4> QED
        BY <4>1, <4>2, <4>3, TokensNat DEF TokensBounded
    <3>4. NoDiagnostic' /\ ParentUp => NoDiagnostic
      BY <2>3, ChildTokens
    <3> QED
      BY <3>1, <3>2, <3>3, <3>4 DEF AvailabilityOK, ParentUp, parent
  <2>4. CASE (\E c \in Conns : Arrive(c)) \/ UNCHANGED vars
    BY <2>1, <2>4 DEF Arrive, vars, parent, children
  <2> QED
    BY <2>2, <2>3, <2>4 DEF Next
<1> QED
  BY <1>1, <1>2, <1>3

\* As long as no child prints a diagnostic, the parent's table and its counter
\* say the truth about the children, whatever dies and whatever accept fails.
THEOREM Availability == Spec => []AvailabilityOK
<1>1. AvailInv => AvailabilityOK
  BY DEF AvailInv
<1> QED
  BY InitAvail, AvailStep, <1>1, PTL DEF Spec

\* Diagnostics printed are not taken back.
LEMMA DiagnosticStays ==
  ASSUME TypeOK, NEW k \in Children, Child(k) \/ Error(k) \/ Crash(k), NoDiagnostic'
  PROVE  NoDiagnostic
<1>1. CASE Error(k)
  <2>1. faults'.error = faults.error + 1 /\ faults.error \in Nat
    BY <1>1 DEF Error, TypeOK, EnvTypeOK
  <2> QED
    BY <2>1 DEF NoDiagnostic
<1>2. CASE Crash(k)
  <2>1. faults'.error = faults.error
    BY <1>2 DEF Crash, TypeOK, EnvTypeOK
  <2> QED
    BY <2>1 DEF NoDiagnostic
<1>3. CASE Child(k)
  BY <1>3 DEF Child, Receive, Orphaned, OrphanReset, Serve, Notify, Exit, NoDiagnostic
<1> QED
  BY <1>1, <1>2, <1>3

\* Hence the parent never stops with "no available children" at its assertion:
\* it accepts only when navail, and so an entry of the table, is free.
THEOREM NoChildUnreachable == Spec => []NoChildWithoutDiagnostic
<1> DEFINE I == AvailInv /\ NoChildWithoutDiagnostic
<1>1. Init => I
  BY InitAvail DEF Init, NoChildWithoutDiagnostic, NoChildNever
<1>2. I /\ [Next]_vars => I'
  <2> SUFFICES ASSUME I, [Next]_vars PROVE NoChildWithoutDiagnostic'
    BY AvailStep
  <2>1. CASE NoneAvailable
    <3>1. navail > 0 /\ Cardinality(Idle) = 0
      BY <2>1, FS_EmptySet DEF NoneAvailable, AvailInv, AcceptHasChild
    <3>2. ~NoDiagnostic
      BY <2>1, <3>1 DEF NoneAvailable, ParentUp, Ended, AvailInv, AvailabilityOK, NavailCounts
    <3> QED
      BY <2>1, <3>2 DEF NoneAvailable, NoDiagnostic, NoChildWithoutDiagnostic
  <2>2. ASSUME ~NoneAvailable, ppc # "no_child" PROVE ppc' # "no_child"
    BY <2>2 DEF Next, Parent, Select, CloseConn, CloseCopy, Skip, ReadByte, ChildTerminated, Dispatch,
                AcceptFails, End, Send, Arrive, Child, Receive, Orphaned, OrphanReset,
                Serve, Notify, Exit, Error, Crash, parent, vars
  <2>3. CASE ~NoneAvailable
    <3>1. CASE ppc # "no_child"
      BY <2>2, <2>3, <3>1 DEF NoChildWithoutDiagnostic, NoChildNever
    <3>2. CASE ppc = "no_child"
      <4>1. ~NoDiagnostic
        BY <3>2 DEF NoChildWithoutDiagnostic, NoChildNever
      <4>2. NoDiagnostic' => NoDiagnostic
        <5>1. CASE \E k \in Children : Child(k) \/ Error(k) \/ Crash(k)
          BY <5>1, DiagnosticStays DEF AvailInv
        <5>2. CASE ~(\E k \in Children : Child(k) \/ Error(k) \/ Crash(k))
          BY <3>2, <5>2 DEF Next, Parent, Select, CloseConn, CloseCopy, Skip, ReadByte, NoneAvailable,
               ChildTerminated, Dispatch, AcceptFails, Arrive, vars, NoDiagnostic
        <5> QED
          BY <5>1, <5>2
      <4> QED
        BY <4>1, <4>2 DEF NoChildWithoutDiagnostic
    <3> QED
      BY <3>1, <3>2
  <2> QED
    BY <2>1, <2>3
<1> QED
  BY <1>1, <1>2, PTL DEF Spec
-----------------------------------------------------------------------------
(* The refinement of ConnService *)

Past == {c \in arrived : c \notin Elems(backlog) /\ \A k \in Children : c # Job(k)}

\* A child has its connection in its pipe, while it waits for one, or in its hands.
OneJob ==
    \A k \in Children :
        /\ down[k] # <<>> => cpc[k] = "recv" /\ Len(down[k]) = 1
        /\ cpc[k] \in {"recv", "notify", "dead"} => serving[k] = None

\* A connection is in one place: once in the queue, or with one child.
OnePlace ==
    /\ Elems(backlog) \subseteq arrived
    /\ \A j, k \in DOMAIN backlog : backlog[j] = backlog[k] => j = k
    /\ \A k \in Children : Job(k) \in (arrived \cup {None}) \ Elems(backlog)
    /\ \A j, k \in Children : Job(j) = Job(k) /\ Job(j) # None => j = k

PlacesOK == NoDiagnostic => OneJob /\ OnePlace

Seen == [Service!Next]_(Service!vars)

LEMMA QueueTail ==
  ASSUME NEW q \in Seq(Conns), q # <<>>,
         \A j, k \in DOMAIN q : q[j] = q[k] => j = k
  PROVE  /\ Head(q) \in Range(q) /\ Range(Tail(q)) = Range(q) \ {Head(q)}
         /\ \A j, k \in DOMAIN Tail(q) : Tail(q)[j] = Tail(q)[k] => j = k
<1>1. Len(q) \in Nat \ {0} /\ DOMAIN q = 1 .. Len(q)
  OBVIOUS
<1>2. /\ DOMAIN Tail(q) = 1 .. Len(q) - 1
      /\ \A k \in 1 .. Len(q) - 1 : Tail(q)[k] = q[k + 1]
  OBVIOUS
<1>3. Head(q) = q[1] /\ 1 \in DOMAIN q
  BY <1>1
<1>4. \A k \in 1 .. Len(q) - 1 : k + 1 \in DOMAIN q /\ k + 1 # 1
  BY <1>1
<1>5. \A k \in DOMAIN q : k = 1 \/ (k - 1 \in 1 .. Len(q) - 1 /\ (k - 1) + 1 = k)
  BY <1>1
<1>6. Range(Tail(q)) \subseteq Range(q) \ {Head(q)}
  BY <1>2, <1>3, <1>4 DEF Range
<1>7. Range(q) \ {Head(q)} \subseteq Range(Tail(q))
  BY <1>2, <1>3, <1>5 DEF Range
<1>8. \A j, k \in 1 .. Len(q) - 1 : j + 1 = k + 1 => j = k
  BY <1>1
<1>9. \A j, k \in DOMAIN Tail(q) : Tail(q)[j] = Tail(q)[k] => j = k
  BY <1>2, <1>4, <1>8
<1> QED
  BY <1>3, <1>6, <1>7, <1>9 DEF Range

LEMMA RangeOfAppend ==
  ASSUME NEW q \in Seq(Conns), NEW c \in Conns
  PROVE  Range(Append(q, c)) = Range(q) \cup {c}
<1> DEFINE s == Append(q, c)
<1>1. Len(q) \in Nat /\ DOMAIN q = 1 .. Len(q)
  OBVIOUS
<1>2. /\ DOMAIN s = 1 .. Len(q) + 1 /\ s[Len(q) + 1] = c
      /\ \A k \in 1 .. Len(q) : s[k] = q[k]
  OBVIOUS
<1> HIDE DEF s
<1>3. 1 .. Len(q) + 1 = (1 .. Len(q)) \cup {Len(q) + 1}
  BY <1>1
<1>4. Range(s) = Range(q) \cup {c}
  BY <1>1, <1>2, <1>3 DEF Range
<1> QED
  BY <1>4 DEF s

LEMMA QueueMore ==
  ASSUME NEW q \in Seq(Conns), NEW c \in Conns \ Range(q),
         \A j, k \in DOMAIN q : q[j] = q[k] => j = k
  PROVE  /\ Range(Append(q, c)) = Range(q) \cup {c}
         /\ \A j, k \in DOMAIN Append(q, c) : Append(q, c)[j] = Append(q, c)[k] => j = k
<1> DEFINE s == Append(q, c)
<1>1. Len(q) \in Nat /\ DOMAIN q = 1 .. Len(q)
  OBVIOUS
<1>2. /\ DOMAIN s = 1 .. Len(q) + 1 /\ s[Len(q) + 1] = c
      /\ \A k \in 1 .. Len(q) : s[k] = q[k]
  OBVIOUS
<1> HIDE DEF s
<1>3. 1 .. Len(q) + 1 = (1 .. Len(q)) \cup {Len(q) + 1}
  BY <1>1
<1>4. Range(s) = Range(q) \cup {c}
  BY RangeOfAppend DEF s
<1>5. \A k \in 1 .. Len(q) : q[k] # c
  BY <1>1 DEF Range
<1>6. \A j, k \in DOMAIN s : s[j] = s[k] => j = k
  BY <1>1, <1>2, <1>3, <1>5
<1> QED
  BY <1>4, <1>6 DEF s

\* A connection in flight or in service is one of the clients'.
LEMMA JobType == TypeOK => \A k \in Children : Job(k) \in Conns \cup {None}
  BY DEF TypeOK, PipesTypeOK, ChildrenTypeOK, Job

LEMMA SameJob ==
  ASSUME NEW k \in Children, down'[k] = down[k], serving'[k] = serving[k]
  PROVE  Job(k)' = Job(k)
  BY DEF Job

\* Steps that move no connection are not seen from outside.
LEMMA Unseen ==
  ASSUME OnePlace, UNCHANGED <<backlog, arrived>>, \A k \in Children : Job(k)' = Job(k)
  PROVE  OnePlace' /\ Seen
<1>1. OnePlace'
  BY DEF OnePlace
<1>2. UNCHANGED Service!vars
  BY DEF Service!vars
<1> QED
  BY <1>1, <1>2 DEF Seen

\* The parent ends, and the queue with it.
LEMMA EndSeen ==
  ASSUME OnePlace, backlog' = <<>>, UNCHANGED arrived, \A k \in Children : Job(k)' = Job(k)
  PROVE  OnePlace' /\ Seen
<1>1. Elems(backlog') = {}
  BY DEF Elems, Range
<1>2. OnePlace'
  BY <1>1 DEF OnePlace
<1>3. CASE backlog = <<>>
  BY <1>3, Unseen
<1>4. CASE backlog # <<>>
  <2>1. Past' = Past \cup Elems(backlog)
    BY <1>1 DEF Past, OnePlace
  <2>2. [k \in Children |-> Job(k)]' = [k \in Children |-> Job(k)]
    OBVIOUS
  <2>3. Service!Stop
    BY <1>4, <2>1, <2>2 DEF Service!Stop, Service!Waiting, Past, Elems, Range
  <2> QED
    BY <1>2, <2>3 DEF Seen, Service!Next
<1> QED
  BY <1>3, <1>4

\* The connection of one child ends, if it has one.
LEMMA FinishSeen ==
  ASSUME TypeOK, OnePlace, NEW k \in Children, UNCHANGED <<backlog, arrived>>,
         Job(k)' = None, \A j \in Children \ {k} : Job(j)' = Job(j)
  PROVE  OnePlace' /\ Seen
<1>1. None \notin Conns /\ arrived \subseteq Conns /\ Elems(backlog) \subseteq arrived
  BY ConnsAssumption DEF TypeOK, EnvTypeOK, OnePlace
<1>2. CASE Job(k) = None
  BY <1>2, Unseen
<1>3. CASE Job(k) # None
  <2>1. OnePlace'
    BY <1>1 DEF OnePlace
  <2>2. Past' = Past \cup {Job(k)}
    <3>1. ASSUME NEW c \in arrived, c # Job(k) PROVE c \in Past' <=> c \in Past
      <4>1. \A j \in Children : c # Job(j)' <=> c # Job(j)
        BY <1>1, <3>1
      <4> QED
        BY <4>1 DEF Past
    <3>2. Job(k) \in arrived /\ Job(k) \notin Elems(backlog)
      BY <1>3 DEF OnePlace
    <3>3. \A j \in Children : Job(k) # Job(j)'
      BY <1>3 DEF OnePlace
    <3>4. Job(k) \in Past'
      BY <3>2, <3>3 DEF Past
    <3>5. Past' \subseteq arrived /\ Past \subseteq arrived
      BY DEF Past
    <3> QED
      BY <3>1, <3>2, <3>4, <3>5
  <2>3. [j \in Children |-> Job(j)]' =
          [j \in Children |-> IF j \in {k} THEN None ELSE [l \in Children |-> Job(l)][j]]
    OBVIOUS
  <2>4. {[l \in Children |-> Job(l)][j] : j \in {k}} = {Job(k)}
    OBVIOUS
  <2>5. Service!Finish({k})
    BY <2>2, <2>3, <2>4 DEF Service!Finish, Past
  <2>6. {k} \in SUBSET {j \in Children : [l \in Children |-> Job(l)][j] # None}
    BY <1>3
  <2>7. Service!Next
    BY <2>5, <2>6 DEF Service!Next
  <2> QED
    BY <2>1, <2>7 DEF Seen
<1> QED
  BY <1>2, <1>3

LEMMA ArriveSeen ==
  ASSUME TypeOK, OnePlace, NEW c \in Conns, Arrive(c)
  PROVE  OnePlace' /\ Seen
<1>1. /\ c \notin arrived /\ arrived' = arrived \cup {c} /\ backlog' = Append(backlog, c)
      /\ UNCHANGED <<down, serving>>
  BY DEF Arrive, children
<1>2. \A k \in Children : Job(k)' = Job(k)
  BY <1>1, SameJob
<1>3. c \notin Elems(backlog) /\ \A k \in Children : Job(k) # c
  BY <1>1, ConnsAssumption DEF OnePlace
<1>4. /\ Elems(backlog') = Elems(backlog) \cup {c}
      /\ \A j, k \in DOMAIN backlog' : backlog'[j] = backlog'[k] => j = k
  BY <1>1, <1>3, QueueMore DEF TypeOK, EnvTypeOK, OnePlace, Elems
<1>5. OnePlace'
  <2>1. Elems(backlog') \subseteq arrived'
    BY <1>1, <1>4 DEF OnePlace
  <2>2. \A k \in Children : Job(k)' \in (arrived' \cup {None}) \ Elems(backlog')
    BY <1>1, <1>2, <1>3, <1>4 DEF OnePlace
  <2> QED
    BY <1>2, <1>4, <2>1, <2>2 DEF OnePlace
<1>6. Past' = Past
  BY <1>1, <1>2, <1>3, <1>4 DEF Past
<1>7. [k \in Children |-> Job(k)]' = [k \in Children |-> Job(k)]
  BY <1>2
<1>8. c \notin Service!Waiting \cup Service!Held \cup Past
  BY <1>1, <1>3 DEF Service!Waiting, Service!Held, Past, Elems, Range
<1>9. Service!Arrive(c)
  BY <1>1, <1>6, <1>7, <1>8 DEF Service!Arrive, Past
<1> QED
  BY <1>5, <1>9 DEF Seen, Service!Next

\* accept and write_fd: the oldest connection goes to a child without one.
LEMMA DispatchSeen ==
  ASSUME TypeOK, TokensBounded, OneJob, OnePlace, NEW k \in Children, Dispatch(k)
  PROVE  OneJob' /\ OnePlace' /\ Seen
<1>1. /\ backlog # <<>> /\ k \in Idle
      /\ UNCHANGED <<arrived, cpc, serving>>
  BY DEF Dispatch, children
<1>2. CASE cpc[k] = "dead"
  <2>1. backlog' = <<>> /\ down' = down
    BY <1>2 DEF Dispatch, End
  <2>2. OneJob'
    BY <1>1, <2>1 DEF OneJob
  <2>3. \A j \in Children : Job(j)' = Job(j)
    BY <1>1, <2>1, SameJob
  <2> QED
    BY <1>1, <2>1, <2>2, <2>3, EndSeen
<1>3. CASE cpc[k] # "dead"
  <2>1. /\ backlog' = Tail(backlog)
        /\ down' = [down EXCEPT ![k] = Append(down[k], Head(backlog))]
    BY <1>3 DEF Dispatch, Send, TypeOK, PipesTypeOK
  <2>2. Tokens(k) = 0
    BY <1>1, TokensNat DEF TokensBounded, Idle
  <2>3. down[k] = <<>> /\ cpc[k] = "recv" /\ serving[k] = None
    <3>1. Len(down[k]) = 0 /\ Held(k) = 0 /\ down[k] \in Seq(Conns)
      BY <2>2, TokensNat DEF Tokens, TypeOK, PipesTypeOK
    <3>2. down[k] = <<>>
      BY <3>1
    <3>3. cpc[k] = "recv"
      BY <1>3, <3>1 DEF Held, TypeOK, ChildrenTypeOK
    <3> QED
      BY <3>2, <3>3 DEF OneJob
  <2>4. Head(backlog) \in Conns /\ backlog \in Seq(Conns)
    BY <1>1 DEF TypeOK, EnvTypeOK
  <2>5. down'[k] = <<Head(backlog)>> /\ \A j \in Children \ {k} : down'[j] = down[j]
    BY <2>1, <2>3 DEF TypeOK, PipesTypeOK
  <2>6. Job(k) = None /\ Job(k)' = Head(backlog)
    BY <1>1, <2>3, <2>5 DEF Job
  <2>7. \A j \in Children \ {k} : Job(j)' = Job(j)
    BY <1>1, <2>5, SameJob
  <2>8. OneJob'
    <3>1. Len(down'[k]) = 1
      BY <2>4, <2>5
    <3> QED
      BY <1>1, <2>3, <2>5, <3>1 DEF OneJob
  <2>9. /\ Head(backlog) \in Elems(backlog)
        /\ Elems(backlog') = Elems(backlog) \ {Head(backlog)}
        /\ \A i1, j \in DOMAIN backlog' : backlog'[i1] = backlog'[j] => i1 = j
    BY <1>1, <2>1, <2>4, QueueTail DEF OnePlace, Elems
  <2>10. \A j \in Children : Job(j) # Head(backlog)
    BY <2>9 DEF OnePlace
  <2>11. OnePlace'
    <3>1. Elems(backlog') \subseteq arrived'
      BY <1>1, <2>9 DEF OnePlace
    <3>2. \A j \in Children : Job(j)' \in (arrived' \cup {None}) \ Elems(backlog')
      BY <1>1, <2>6, <2>7, <2>9 DEF OnePlace
    <3>3. \A j, l \in Children : Job(j)' = Job(l)' /\ Job(j)' # None => j = l
      BY <2>6, <2>7, <2>10 DEF OnePlace
    <3> QED
      BY <2>9, <3>1, <3>2, <3>3 DEF OnePlace
  <2>12. Past' = Past
    <3>1. None \notin arrived
      BY ConnsAssumption DEF TypeOK, EnvTypeOK
    <3>2. ASSUME NEW c \in arrived, c # Head(backlog) PROVE c \in Past' <=> c \in Past
      <4>1. \A j \in Children : c # Job(j)' <=> c # Job(j)
        BY <2>6, <2>7, <3>1, <3>2
      <4>2. c \in Elems(backlog') <=> c \in Elems(backlog)
        BY <2>9, <3>2
      <4> QED
        BY <1>1, <4>1, <4>2 DEF Past
    <3>3. Head(backlog) \notin Past /\ Head(backlog) \notin Past'
      BY <2>6, <2>9 DEF Past
    <3>4. Past' \subseteq arrived /\ Past \subseteq arrived
      BY <1>1 DEF Past
    <3> QED
      BY <3>2, <3>3, <3>4
  <2>13. [j \in Children |-> Job(j)]' =
            [[j \in Children |-> Job(j)] EXCEPT ![k] = Head(backlog)]
    BY <2>6, <2>7
  <2>14. Service!Start(k)
    BY <1>1, <2>1, <2>6, <2>12, <2>13 DEF Service!Start, Past
  <2> QED
    BY <2>8, <2>11, <2>14 DEF Seen, Service!Next
<1> QED
  BY <1>2, <1>3

\* accept fails, and the connection may be lost with it.
LEMMA AcceptFailsSeen ==
  ASSUME TypeOK, OneJob, OnePlace, NEW k \in Children, AcceptFails(k)
  PROVE  OneJob' /\ OnePlace' /\ Seen
<1>1. UNCHANGED <<arrived, cpc, serving, down>>
  BY DEF AcceptFails, children
<1>2. OneJob'
  BY <1>1 DEF OneJob
<1>3. \A j \in Children : Job(j)' = Job(j)
  BY <1>1, SameJob
<1>4. CASE backlog' = backlog
  BY <1>1, <1>2, <1>3, <1>4, Unseen
<1>5. CASE backlog # <<>> /\ backlog' = Tail(backlog)
  <2>1. /\ Head(backlog) \in Elems(backlog)
        /\ Elems(backlog') = Elems(backlog) \ {Head(backlog)}
        /\ \A i1, j \in DOMAIN backlog' : backlog'[i1] = backlog'[j] => i1 = j
    BY <1>5, QueueTail DEF OnePlace, Elems, TypeOK, EnvTypeOK
  <2>2. OnePlace'
    BY <1>1, <1>3, <2>1 DEF OnePlace
  <2>3. Past' = Past \cup {Head(backlog)}
    BY <1>1, <1>3, <2>1 DEF Past, OnePlace
  <2>4. [j \in Children |-> Job(j)]' = [j \in Children |-> Job(j)]
    BY <1>3
  <2>5. Service!Lose
    BY <1>5, <2>3, <2>4 DEF Service!Lose, Past
  <2> QED
    BY <1>2, <2>2, <2>5 DEF Seen, Service!Next
<1> QED
  BY <1>4, <1>5 DEF AcceptFails

LEMMA ParentSeen ==
  ASSUME TypeOK, TokensBounded, OneJob, OnePlace, Parent
  PROVE  OneJob' /\ OnePlace' /\ Seen
<1>1. ASSUME UNCHANGED <<arrived, cpc, serving, down>>
      PROVE  OneJob' /\ \A j \in Children : Job(j)' = Job(j)
  BY <1>1, SameJob DEF OneJob
<1>2. CASE Select \/ CloseConn \/ Skip \/ ReadByte
  <2>1. UNCHANGED <<backlog, arrived, cpc, serving, down>>
    BY <1>2 DEF Select, CloseConn, CloseCopy, Skip, ReadByte, children
  <2> QED
    BY <1>1, <2>1, Unseen
<1>3. CASE NoneAvailable \/ ChildTerminated
  <2>1. UNCHANGED <<arrived, cpc, serving, down>> /\ backlog' = <<>>
    BY <1>3 DEF NoneAvailable, ChildTerminated, End, children
  <2> QED
    BY <1>1, <2>1, EndSeen
<1> QED
  BY <1>2, <1>3, DispatchSeen, AcceptFailsSeen DEF Parent

\* A child that goes closes what it held or was sent.
LEMMA DieSeen ==
  ASSUME TypeOK, OneJob, OnePlace, NEW k \in Children, Die(k), UNCHANGED <<backlog, arrived>>
  PROVE  OneJob' /\ OnePlace' /\ Seen
<1>1. /\ cpc'[k] = "dead" /\ serving'[k] = None /\ down'[k] = <<>>
      /\ \A j \in Children \ {k} :
           cpc'[j] = cpc[j] /\ serving'[j] = serving[j] /\ down'[j] = down[j]
  BY DEF Die, TypeOK, PipesTypeOK, ChildrenTypeOK
<1>2. OneJob'
  BY <1>1 DEF OneJob
<1>3. Job(k)' = None /\ \A j \in Children \ {k} : Job(j)' = Job(j)
  BY <1>1, SameJob DEF Job
<1> QED
  BY <1>2, <1>3, FinishSeen

LEMMA ChildSeen ==
  ASSUME TypeOK, OneJob, OnePlace, NEW k \in Children, Child(k) \/ Error(k) \/ Crash(k)
  PROVE  OneJob' /\ OnePlace' /\ Seen
<1> USE DEF TypeOK, PipesTypeOK, ChildrenTypeOK
<1>0. ASSUME UNCHANGED <<serving, down>>, NEW p \in {"recv", "serve", "notify", "exit"},
             cpc' = [cpc EXCEPT ![k] = p], down[k] = <<>>,
             p \in {"recv", "notify"} => serving[k] = None, UNCHANGED <<backlog, arrived>>
      PROVE  OneJob' /\ OnePlace' /\ Seen
  <2>1. OneJob'
    BY <1>0 DEF OneJob
  <2> QED
    BY <1>0, <2>1, SameJob, Unseen
<1>1. CASE Receive(k)
  <2>1. /\ cpc[k] = "recv" /\ Len(down[k]) = 1 /\ down[k] \in Seq(Conns)
        /\ serving[k] = None /\ down[k] # <<>>
    BY <1>1 DEF Receive, OneJob
  <2>2. Tail(down[k]) = <<>> /\ Head(down[k]) \in Conns
    <3> DEFINE t == Tail(down[k])
    <3>1. t \in Seq(Conns) /\ Len(t) = 0
      BY <2>1
    <3> HIDE DEF t
    <3>2. t = <<>>
      BY <3>1
    <3> QED
      BY <2>1, <3>2 DEF t
  <2>3. /\ cpc'[k] = "serve" /\ serving'[k] = Head(down[k]) /\ down'[k] = <<>>
        /\ \A j \in Children \ {k} :
             cpc'[j] = cpc[j] /\ serving'[j] = serving[j] /\ down'[j] = down[j]
    BY <1>1, <2>2 DEF Receive
  <2>4. OneJob'
    BY <2>3 DEF OneJob
  <2>5. Job(k)' = Job(k)
    BY <2>1, <2>3 DEF Job
  <2>6. \A j \in Children : Job(j)' = Job(j)
    BY <2>3, <2>5, SameJob
  <2> QED
    BY <1>1, <2>4, <2>6, Unseen DEF Receive
<1>2. CASE Orphaned(k) \/ Exit(k) \/ Crash(k)
  BY <1>2, DieSeen DEF Orphaned, Exit, Crash
<1>3. CASE OrphanReset(k)
  <2>1. CASE Die(k)
    BY <1>3, <2>1, DieSeen DEF OrphanReset
  <2>2. CASE ~Die(k)
    BY <1>0, <1>3, <2>2 DEF OrphanReset
  <2> QED
    BY <2>1, <2>2
<1>4. CASE Serve(k)
  <2>1. /\ cpc[k] = "serve" /\ cpc'[k] = "notify" /\ serving'[k] = None /\ down' = down
        /\ \A j \in Children \ {k} : cpc'[j] = cpc[j] /\ serving'[j] = serving[j]
    BY <1>4 DEF Serve
  <2>2. down[k] = <<>>
    BY <2>1 DEF OneJob
  <2>3. OneJob'
    BY <2>1, <2>2 DEF OneJob
  <2>4. Job(k)' = None /\ \A j \in Children \ {k} : Job(j)' = Job(j)
    BY <2>1, <2>2, SameJob DEF Job
  <2> QED
    BY <1>4, <2>3, <2>4, FinishSeen DEF Serve
<1>5. CASE Notify(k)
  <2>1. CASE ParentEndClosed(k)
    BY <1>5, <2>1, DieSeen DEF Notify
  <2>2. CASE ~ParentEndClosed(k)
    <3>1. down[k] = <<>> /\ serving[k] = None
      BY <1>5 DEF Notify, OneJob
    <3> QED
      BY <1>0, <1>5, <2>2, <3>1 DEF Notify
  <2> QED
    BY <2>1, <2>2
<1>6. CASE Error(k)
  <2>1. down[k] = <<>>
    BY <1>6 DEF Error, OneJob
  <2> QED
    BY <1>0, <1>6, <2>1 DEF Error
<1> QED
  BY <1>1, <1>2, <1>3, <1>4, <1>5, <1>6 DEF Child

\* Diagnostics printed are not taken back, by any step.
LEMMA NoDiagnosticBefore == TypeOK /\ [Next]_vars /\ NoDiagnostic' => NoDiagnostic
<1> SUFFICES ASSUME TypeOK, [Next]_vars, NoDiagnostic' PROVE NoDiagnostic
  OBVIOUS
<1>1. CASE \E k \in Children : Child(k) \/ Error(k) \/ Crash(k)
  BY <1>1, DiagnosticStays
<1>2. CASE \E k \in Children : AcceptFails(k)
  BY <1>2 DEF AcceptFails, NoDiagnostic, TypeOK, EnvTypeOK
<1>3. CASE UNCHANGED faults
  BY <1>3 DEF NoDiagnostic
<1> QED
  BY <1>1, <1>2, <1>3 DEF Next, Parent, Select, CloseConn, CloseCopy, Skip, ReadByte, NoneAvailable,
     ChildTerminated, Dispatch, Arrive, vars

LEMMA NextSeen ==
  AvailInv /\ PlacesOK /\ [Next]_vars => PlacesOK' /\ (NoDiagnostic' => Seen)
<1> SUFFICES ASSUME AvailInv, PlacesOK, [Next]_vars, NoDiagnostic'
             PROVE  OneJob' /\ OnePlace' /\ Seen
  BY DEF PlacesOK
<1>1. TypeOK /\ NoDiagnostic /\ OneJob /\ OnePlace
  BY NoDiagnosticBefore DEF AvailInv, PlacesOK
<1>2. CASE Parent
  <2>1. ParentUp
    BY <1>2 DEF Parent, Select, CloseConn, CloseCopy, Skip, ReadByte, NoneAvailable, ChildTerminated,
                Dispatch, AcceptFails, ParentUp, Ended
  <2>2. TokensBounded
    BY <1>1, <2>1 DEF AvailInv, AvailabilityOK
  <2> QED
    BY <1>1, <1>2, <2>2, ParentSeen
<1>3. CASE \E c \in Conns : Arrive(c)
  <2>1. OneJob'
    BY <1>1, <1>3 DEF OneJob, Arrive, children
  <2> QED
    BY <1>1, <1>3, <2>1, ArriveSeen
<1>4. CASE \E k \in Children : Child(k) \/ Error(k) \/ Crash(k)
  BY <1>1, <1>4, ChildSeen
<1>5. CASE UNCHANGED vars
  <2>1. OneJob' /\ \A j \in Children : Job(j)' = Job(j)
    BY <1>1, <1>5, SameJob DEF vars, children, OneJob
  <2> QED
    BY <1>1, <1>5, <2>1, Unseen DEF vars
<1> QED
  BY <1>2, <1>3, <1>4, <1>5 DEF Next

\* Until a child prints a diagnostic: clients are taken in the order they arrived,
\* each by one child that has no other, and end with it, whoever dies and whatever
\* accept fails.
THEOREM PassingImplementsService == Spec => ImplementsService
<1>1. Init => AvailInv /\ PlacesOK /\ Service!Init
  <2> SUFFICES ASSUME Init PROVE AvailInv /\ PlacesOK /\ Service!Init
    OBVIOUS
  <2>1. Elems(backlog) = {} /\ backlog = <<>> /\ arrived = {}
    BY DEF Init, Elems, Range
  <2>2. \A k \in Children : Job(k) = None /\ down[k] = <<>> /\ serving[k] = None
    BY DEF Init, Job
  <2>3. OneJob /\ OnePlace
    BY <2>1, <2>2 DEF OneJob, OnePlace
  <2>4. [k \in Children |-> Job(k)] = [k \in Children |-> None]
    BY <2>2
  <2>5. Service!Init
    BY <2>1, <2>4 DEF Service!Init
  <2> QED
    BY <2>3, <2>5, InitAvail DEF PlacesOK
<1>2. AvailInv /\ PlacesOK /\ [Next]_vars =>
          PlacesOK' /\ [NoDiagnostic' => [Service!Next]_(Service!vars)]_vars
  BY NextSeen DEF Seen
<1> QED
  BY <1>1, <1>2, AvailStep, PTL DEF Spec, ImplementsService

-----------------------------------------------------------------------------
(* What closes, without faults *)

\* Nobody ends: a pipe that select reported still holds its byte when the scan
\* comes to it.
Calm ==
    NoFault =>
        /\ ParentUp /\ \A k \in Children : cpc[k] \notin {"exit", "dead"}
        /\ ppc \in {"accept", "close", "scan"} =>
             \A k \in rset \cap Children : k >= i => ~ReadsEof(k)

\* The parent closes its copy of a descriptor that a child has, or is done with.
HandedOver ==
    connfd # None =>
        connfd \in served \/ \E k \in Children : connfd = serving[k] \/ connfd \in Elems(down[k])

QuietInv == AvailInv /\ PlacesOK /\ Calm /\ (NoFault => HandedOver /\ ClosedAfterServed)

LEMMA FaultsStay ==
  ASSUME TypeOK, [Next]_vars, NoFault'
  PROVE  /\ NoFault /\ NoDiagnostic
         /\ \A k \in Children : ~Error(k) /\ ~Crash(k) /\ ~AcceptFails(k)
<1>1. faults.crash \in Nat /\ faults.error \in Nat /\ faults.accept \in Nat
  BY DEF TypeOK, EnvTypeOK
<1>2. ASSUME NEW k \in Children, Error(k) \/ Crash(k) \/ AcceptFails(k) PROVE FALSE
  BY <1>1, <1>2 DEF Error, Crash, AcceptFails, NoFault, TypeOK, EnvTypeOK
<1>3. faults' = faults
  BY <1>2 DEF Next, Parent, Select, CloseConn, CloseCopy, Skip, ReadByte, NoneAvailable,
     ChildTerminated, Dispatch, Arrive, Child, Receive, Orphaned, OrphanReset, Serve, Notify,
     Exit, vars
<1> QED
  BY <1>1, <1>2, <1>3 DEF NoFault, NoDiagnostic

\* With an idle child at accept, everybody there and every reported pipe readable,
\* only these steps are left.
LEMMA QuietSteps ==
  ASSUME QuietInv, [Next]_vars, NoFault'
  PROVE  \/ \E c \in Conns : Arrive(c)
         \/ Select \/ CloseConn \/ Skip \/ ReadByte
         \/ \E k \in Children : cpc[k] # "dead" /\ Dispatch(k)
         \/ \E k \in Children : \/ Receive(k) \/ Serve(k)
                                \/ Notify(k) /\ ~ParentEndClosed(k)
         \/ UNCHANGED vars
<1>1. NoFault /\ NoDiagnostic /\ TypeOK
  BY FaultsStay DEF QuietInv, AvailInv
<1>2. /\ ParentUp /\ \A k \in Children : cpc[k] \notin {"exit", "dead"}
      /\ ppc = "scan" => \A k \in rset \cap Children : k >= i => ~ReadsEof(k)
  BY <1>1 DEF QuietInv, Calm
<1>3. ~NoneAvailable
  <2>1. NavailCounts
    BY <1>1, <1>2 DEF QuietInv, AvailInv, AvailabilityOK
  <2> QED
    BY <2>1, FS_EmptySet DEF NoneAvailable, QuietInv, AvailInv, AcceptHasChild, NavailCounts
<1>4. ~ChildTerminated
  <2>1. ChildTerminated => i \in rset \cap Children /\ i >= i
    BY <1>1 DEF ChildTerminated, Children, TypeOK, ParentTypeOK
  <2> QED
    BY <1>2, <2>1 DEF ChildTerminated
<1>5. \A k \in Children : ~Orphaned(k) /\ ~OrphanReset(k) /\ ~Exit(k) /\ ~ParentEndClosed(k)
  BY <1>2 DEF Orphaned, OrphanReset, Exit, ParentEndClosed
<1>6. \A k \in Children : ~Error(k) /\ ~Crash(k) /\ ~AcceptFails(k)
  BY <1>1, FaultsStay
<1> QED
  BY <1>2, <1>3, <1>4, <1>5, <1>6 DEF Next, Parent, Child

LEMMA CalmStep == QuietInv /\ [Next]_vars => Calm'
<1> SUFFICES ASSUME QuietInv, [Next]_vars, NoFault'
             PROVE  /\ ParentUp' /\ \A k \in Children : cpc'[k] \notin {"exit", "dead"}
                    /\ ppc' \in {"accept", "close", "scan"} =>
                         \A k \in rset' \cap Children : k >= i' => ~ReadsEof(k)'
  BY DEF Calm
<1>1. TypeOK /\ NoFault
  BY FaultsStay DEF QuietInv, AvailInv
<1>2. /\ ParentUp /\ \A k \in Children : cpc[k] \notin {"exit", "dead"}
      /\ ppc \in {"accept", "close", "scan"} =>
           \A k \in rset \cap Children : k >= i => ~ReadsEof(k)
  BY <1>1 DEF QuietInv, Calm
<1> USE DEF TypeOK, ParentTypeOK, PipesTypeOK, ChildrenTypeOK
<1>3. CASE Select
  <2>1. \A k \in rset' \cap Children : ~ReadsEof(k)'
    BY <1>1, <1>2, <1>3 DEF Select, Readable, ReadsEof, Children, Listen
  <2> QED
    BY <1>2, <1>3, <2>1 DEF Select, ParentUp, Ended, children
<1>4. CASE (\E c \in Conns : Arrive(c)) \/ UNCHANGED vars
  BY <1>2, <1>4 DEF Arrive, vars, parent, children, ParentUp, ReadsEof
<1>5. CASE CloseConn \/ Skip
  <2>1. i \in 0 .. nchildren /\ i' \in {i, i + 1} /\ rset' = rset /\ up' = up /\ reset' = reset
    BY <1>1, <1>5 DEF CloseConn, CloseCopy, Skip
  <2>2. \A k \in Children : k \in Int
    BY DEF Children
  <2>3. \A k \in Children : k >= i' => k >= i
    BY <2>1, <2>2
  <2> QED
    BY <1>2, <1>5, <2>1, <2>3 DEF CloseConn, CloseCopy, Skip, ParentUp, Ended, children, ReadsEof
<1>6. CASE ReadByte
  <2>1. /\ i \in Children /\ i' = i + 1 /\ rset' = rset /\ ppc = "scan"
        /\ \A k \in Children \ {i} : up'[k] = up[k] /\ reset'[k] = reset[k]
    BY <1>1, <1>6 DEF ReadByte
  <2>2. \A k \in Children : k >= i' => k >= i /\ k # i
    BY <2>1 DEF Children
  <2> QED
    BY <1>2, <1>6, <2>1, <2>2 DEF ReadByte, ParentUp, Ended, children, ReadsEof
<1>7. CASE \E k \in Children : cpc[k] # "dead" /\ Dispatch(k)
  BY <1>2, <1>7 DEF Dispatch, Send, ParentUp, Ended, children, ReadsEof
<1>8. ASSUME NEW k \in Children, Receive(k) \/ Serve(k) \/ (Notify(k) /\ ~ParentEndClosed(k))
      PROVE  /\ ParentUp' /\ \A j \in Children : cpc'[j] \notin {"exit", "dead"}
             /\ ppc' \in {"accept", "close", "scan"} =>
                  \A j \in rset' \cap Children : j >= i' => ~ReadsEof(j)'
  <2>1. UNCHANGED parent /\ \A j \in Children : cpc'[j] \notin {"exit", "dead"}
    BY <1>1, <1>2, <1>8 DEF Receive, Serve, Notify
  <2>2. \A j \in Children : ReadsEof(j)' => ReadsEof(j)
    BY <1>1, <1>8 DEF Receive, Serve, Notify, ReadsEof
  <2> QED
    BY <1>2, <2>1, <2>2 DEF parent, ParentUp
<1> QED
  BY <1>3, <1>4, <1>5, <1>6, <1>7, <1>8, QuietSteps

\* A connection that closes was either the copy the parent closes, which is handed
\* over, or the one a child has served.
LEMMA ClosedStep ==
  ASSUME QuietInv, [Next]_vars, NoFault'
  PROVE  HandedOver' /\ ClosedAfterServed'
<1>1. TypeOK /\ NoFault /\ HandedOver /\ OneJob /\ OnePlace
  BY FaultsStay DEF QuietInv, AvailInv, PlacesOK
<1>2. \A c \in arrived : Open(c) \/ c \in served
  BY <1>1 DEF QuietInv, ClosedAfterServed
<1> DEFINE Kept(c) == \E k \in Children : c = serving[k] \/ c \in Elems(down[k])
<1>3. \A c : Open(c) <=> c \in Elems(backlog) \cup {connfd} \/ Kept(c)
  BY DEF Open
<1>4. CASE UNCHANGED <<connfd, backlog, served, serving, down, arrived>>
  BY <1>1, <1>2, <1>4 DEF HandedOver, ClosedAfterServed, Open
<1>5. CASE CloseConn
  <2>1. connfd' = None /\ UNCHANGED <<backlog, served, serving, down, arrived>>
    BY <1>5 DEF CloseConn, CloseCopy, children
  <2>2. None \notin arrived
    BY <1>1, ConnsAssumption DEF TypeOK, EnvTypeOK
  <2> QED
    BY <1>1, <1>2, <2>1, <2>2 DEF HandedOver, ClosedAfterServed, Open
<1>6. ASSUME NEW c \in Conns, Arrive(c) PROVE HandedOver' /\ ClosedAfterServed'
  <2>1. /\ arrived' = arrived \cup {c} /\ backlog' = Append(backlog, c)
        /\ UNCHANGED <<connfd, served, serving, down>> /\ c \notin arrived
    BY <1>6 DEF Arrive, parent, children
  <2>2. Elems(backlog') = Elems(backlog) \cup {c}
    BY <1>1, <2>1, QueueMore DEF OnePlace, Elems, TypeOK, EnvTypeOK
  <2>3. \A d : Open(d)' <=> Open(d) \/ d = c
    BY <2>1, <2>2 DEF Open
  <2> QED
    BY <1>1, <1>2, <2>1, <2>3 DEF HandedOver, ClosedAfterServed
<1>7. ASSUME NEW k \in Children, cpc[k] # "dead", Dispatch(k) PROVE HandedOver' /\ ClosedAfterServed'
  <2>1. /\ backlog # <<>> /\ connfd' = Head(backlog) /\ backlog' = Tail(backlog)
        /\ down' = [down EXCEPT ![k] = Append(down[k], Head(backlog))]
        /\ UNCHANGED <<arrived, served, serving>>
    BY <1>1, <1>7 DEF Dispatch, Send, TypeOK, PipesTypeOK, children
  <2>2. Elems(backlog) = Elems(backlog') \cup {Head(backlog)}
    BY <1>1, <2>1, QueueTail DEF OnePlace, Elems, TypeOK, EnvTypeOK
  <2>3. Head(backlog) \in Conns /\ down[k] \in Seq(Conns)
    BY <1>1, <2>1 DEF TypeOK, EnvTypeOK, PipesTypeOK
  <2>4. Elems(Append(down[k], Head(backlog))) = Elems(down[k]) \cup {Head(backlog)}
    BY <2>3, RangeOfAppend DEF Elems
  <2>5. /\ Elems(down'[k]) = Elems(down[k]) \cup {Head(backlog)}
        /\ \A j \in Children \ {k} : down'[j] = down[j]
    BY <1>1, <2>1, <2>4 DEF TypeOK, PipesTypeOK
  <2>6. \A c : Kept(c) => Kept(c)'
    BY <2>1, <2>5
  <2>7. Head(backlog) \in Elems(down'[k])
    BY <2>5
  <2>8. HandedOver'
    BY <2>1, <2>7 DEF HandedOver
  <2>9. ASSUME NEW c \in arrived PROVE Open(c)' \/ c \in served
    <3>1. CASE c \in Elems(backlog)
      BY <2>1, <2>2, <3>1 DEF Open
    <3>2. CASE Kept(c)
      BY <2>6, <3>2 DEF Open
    <3>3. CASE c = connfd
      BY <1>1, <2>6, <3>3, ConnsAssumption DEF HandedOver, Open, TypeOK, EnvTypeOK
    <3> QED
      BY <1>2, <1>3, <3>1, <3>2, <3>3
  <2> QED
    BY <2>1, <2>8, <2>9 DEF ClosedAfterServed
<1>8. ASSUME NEW k \in Children, Receive(k) PROVE HandedOver' /\ ClosedAfterServed'
  <2>1. /\ cpc[k] = "recv" /\ Len(down[k]) = 1 /\ down[k] \in Seq(Conns) /\ serving[k] = None
    BY <1>1, <1>8 DEF Receive, OneJob, TypeOK, PipesTypeOK
  <2>2. \A c \in Elems(down[k]) : c = Head(down[k])
    BY <2>1 DEF Elems, Range
  <2>3. /\ serving'[k] = Head(down[k])
        /\ \A j \in Children \ {k} : serving'[j] = serving[j] /\ down'[j] = down[j]
    BY <1>1, <1>8 DEF Receive, TypeOK, PipesTypeOK, ChildrenTypeOK
  <2>4. ASSUME NEW c, c # None, Kept(c) PROVE Kept(c)'
    BY <2>1, <2>2, <2>3, <2>4
  <2>5. UNCHANGED <<connfd, backlog, served, arrived>>
    BY <1>8 DEF Receive, parent
  <2>6. None \notin arrived
    BY <1>1, ConnsAssumption DEF TypeOK, EnvTypeOK
  <2>7. \A c \in arrived : Open(c) => Open(c)'
    BY <2>4, <2>5, <2>6 DEF Open
  <2> QED
    BY <1>1, <1>2, <2>4, <2>5, <2>7 DEF HandedOver, ClosedAfterServed
<1>9. ASSUME NEW k \in Children, Serve(k) PROVE HandedOver' /\ ClosedAfterServed'
  <2>1. /\ served' = served \cup ({serving[k]} \ {None}) /\ down' = down
        /\ \A j \in Children \ {k} : serving'[j] = serving[j]
        /\ UNCHANGED <<connfd, backlog, arrived>>
    BY <1>1, <1>9 DEF Serve, TypeOK, ChildrenTypeOK, parent
  <2>2. ASSUME NEW c, c # None, Kept(c) PROVE Kept(c)' \/ c \in served'
    BY <2>1, <2>2
  <2>3. None \notin arrived
    BY <1>1, ConnsAssumption DEF TypeOK, EnvTypeOK
  <2>4. \A c \in arrived : Open(c) => Open(c)' \/ c \in served'
    BY <2>1, <2>2, <2>3 DEF Open
  <2> QED
    BY <1>1, <1>2, <2>1, <2>2, <2>4 DEF HandedOver, ClosedAfterServed
<1> QED
  BY <1>4, <1>5, <1>6, <1>7, <1>8, <1>9, QuietSteps
  DEF Select, Skip, ReadByte, Notify, vars, children, parent

LEMMA QuietStep == QuietInv /\ [Next]_vars => QuietInv'
<1> SUFFICES ASSUME QuietInv, [Next]_vars PROVE QuietInv'
  OBVIOUS
<1>1. AvailInv' /\ PlacesOK'
  BY AvailStep, NextSeen DEF QuietInv
<1> QED
  BY <1>1, CalmStep, ClosedStep DEF QuietInv

\* Without faults no client loses its connection before web_child is done with it:
\* the close(connfd) of the parent is never the last.
THEOREM NotClosedTooSoon == Spec => []ClosedAfterServed
<1>1. Init => QuietInv
  <2> SUFFICES ASSUME Init PROVE QuietInv
    OBVIOUS
  <2>1. Elems(backlog) = {} /\ backlog = <<>> /\ arrived = {}
    BY DEF Init, Elems, Range
  <2>2. \A k \in Children : Job(k) = None /\ down[k] = <<>> /\ serving[k] = None
    BY DEF Init, Job
  <2>3. PlacesOK
    BY <2>1, <2>2 DEF PlacesOK, OneJob, OnePlace
  <2> QED
    BY <2>1, <2>3, InitAvail DEF Init, QuietInv, Calm, HandedOver, ClosedAfterServed, ParentUp, Ended
<1>2. QuietInv => ClosedAfterServed
  BY DEF QuietInv, ClosedAfterServed
<1> QED
  BY <1>1, <1>2, QuietStep, PTL DEF Spec
=============================================================================
