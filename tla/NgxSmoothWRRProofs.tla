------------------------- MODULE NgxSmoothWRRProofs -------------------------
(***************************************************************************)
(* The choice of ngx_http_upstream_get_peer is fair for any number of      *)
(* peers, any weights and any number of choices.                           *)
(***************************************************************************)
EXTENDS NgxSmoothWRR, SumProofs

\* The weights and counters, and that there is something to choose.
Typed ==
    /\ weight \in [Peer -> Nat \ {0}]
    /\ current_weight \in [Peer -> Int]
    /\ round \in Nat
    /\ picks \in [Peer -> Nat]

\* What makes the choice fair: the current weights add up to nothing, each is
\* exactly what its peer is owed, and none is a whole total in debt.
IInv ==
    /\ Typed
    /\ SumOver(current_weight, Peer) = 0
    /\ \A p \in Peer :
        /\ current_weight[p] = round * weight[p] - Total * picks[p]
        /\ current_weight[p] > -Total

\* The number of peers is fixed, and there is one.
LEMMA Peers == IsFiniteSet(Peer) /\ 1 \in Peer
BY FS_Interval, WRRAssumption DEF Peer

\* total is positive, for every weight is.
LEMMA TotalPositive ==
    ASSUME Typed PROVE Total \in Int /\ Total > 0
<1>1. \A p \in Peer : weight[p] \in Int /\ weight[p] >= 0
  BY DEF Typed
<1>2. weight[1] > 0
  BY Peers DEF Typed
<1>3. Total \in Int
  BY <1>1, Peers, SumPick, ZenonT(30) DEF Total
<1>4. weight[1] <= Total
  BY <1>1, Peers, SumNonneg DEF Total
<1> QED BY <1>1, <1>2, <1>3, <1>4, Peers

\* Products with one more choice.
LEMMA OneMore ==
    \A a, b \in Int : (a + 1) * b = a * b + b /\ b * (a + 1) = b * a + b
OBVIOUS

\* What is owed at the end of a cycle is a multiple of the total.
LEMMA Owed ==
    \A t, k, w, c \in Int : (t * k) * w - t * c = t * (k * w - c)
OBVIOUS

\* A multiple of a total that is less than one total in debt is in no debt.
LEMMA NoDebt ==
    ASSUME NEW t \in Int, t > 0, NEW d \in Int
    PROVE  /\ t * d > -t => t * d >= 0
           /\ t * d = 0 => d = 0
<1>1. CASE d >= 0
  BY <1>1
<1>2. CASE d < 0
  BY <1>2
<1> QED BY <1>1, <1>2

\* Nobody is owed anything before the first choice.
LEMMA InitIInv == Init => IInv
<1> SUFFICES ASSUME Init PROVE IInv
  OBVIOUS
<1>1. Typed
  BY DEF Init, Typed
<1>2. Total \in Int /\ Total > 0
  BY <1>1, TotalPositive
<1>3. SumOver(current_weight, Peer) = 0
  <2>1. \A p \in Peer : current_weight[p] = 0
    BY DEF Init
  <2>2. SumOver(current_weight, Peer) = SumOver(current_weight, {})
    BY <2>1, Peers, SumSubset
  <2> QED BY <2>2, SumEmpty
<1>4. ASSUME NEW p \in Peer
      PROVE  /\ current_weight[p] = round * weight[p] - Total * picks[p]
             /\ current_weight[p] > -Total
  BY <1>1, <1>2 DEF Init, Typed
<1> QED BY <1>1, <1>3, <1>4 DEF IInv

\* Once all weights are raised they add up to the total, so that the greatest
\* is positive.
LEMMA BestPositive ==
    ASSUME IInv, NEW b \in Peer, IsBest(b)
    PROVE  /\ SumOver(Raised, Peer) = Total
           /\ Raised[b] > 0
<1>1. Typed
  BY DEF IInv
<1>2. /\ \A p \in Peer : /\ current_weight[p] \in Int /\ weight[p] \in Int
                         /\ Raised[p] = current_weight[p] + weight[p]
      /\ IsFiniteSet(Peer)
  BY <1>1, Peers DEF Typed, Raised
<1>3. SumOver(Raised, Peer) = SumOver(current_weight, Peer) + SumOver(weight, Peer)
  BY ONLY <1>2, SumAdd
<1>4. SumOver(Raised, Peer) = Total
  BY <1>1, <1>3, TotalPositive DEF IInv, Total
<1>5. ASSUME Raised[b] <= 0 PROVE FALSE
  <2> DEFINE f == [p \in Peer |-> -Raised[p]]
             z == [p \in Peer |-> 0]
  <2>1. \A p \in Peer : f[p] \in Int /\ f[p] >= 0
    BY <1>2, <1>5 DEF IsBest
  <2>2. SumOver(f, Peer) >= 0
    BY <2>1, Peers, SumNonneg
  <2>3. \A p \in Peer : Raised[p] \in Int /\ f[p] \in Int /\ z[p] = Raised[p] + f[p]
    BY <1>2
  <2>4. \A p \in Peer : z[p] = 0
    OBVIOUS
  <2> HIDE DEF f, z
  <2>5. SumOver(z, Peer) = SumOver(Raised, Peer) + SumOver(f, Peer)
    BY <2>3, Peers, SumAdd
  <2>6. SumOver(z, Peer) = SumOver(z, {})
    BY <2>4, Peers, SumSubset
  <2>7. SumOver(z, {}) = 0
    BY SumEmpty
  <2>8. SumOver(f, Peer) \in Int
    BY <2>3, Peers, SumPick, ZenonT(30)
  <2> QED BY <1>1, <1>4, <2>2, <2>5, <2>6, <2>7, <2>8, TotalPositive
<1> QED BY <1>2, <1>4, <1>5

\* A choice keeps the account.
LEMMA GetPeerKeeps == IInv /\ [GetPeer]_vars => IInv'
<1> SUFFICES ASSUME IInv, [GetPeer]_vars PROVE IInv'
  OBVIOUS
<1>1. CASE UNCHANGED vars
  BY <1>1 DEF vars, IInv, Typed, Total
<1>2. CASE GetPeer
  <2>1. PICK b \in Peer :
            /\ IsBest(b)
            /\ current_weight' = [Raised EXCEPT ![b] = @ - Total]
            /\ picks' = [picks EXCEPT ![b] = @ + 1]
            /\ round' = round + 1
            /\ UNCHANGED weight
    BY <1>2, ZenonT(30) DEF GetPeer
  <2>2. Typed /\ Total \in Int /\ Total > 0
    BY TotalPositive DEF IInv
  <2>3. Total' = Total
    BY <2>1 DEF Total
  <2>4. SumOver(Raised, Peer) = Total /\ Raised[b] > 0
    BY <2>1, BestPositive
  <2>5. Raised \in [Peer -> Int]
    BY <2>2 DEF Raised, Typed
  <2>6. Typed'
    BY <2>1, <2>2, <2>5 DEF Typed
  <2>7. SumOver(current_weight', Peer) = 0
    <3>1. /\ \A p \in Peer : Raised[p] \in Int
          /\ \A p \in Peer \ {b} : current_weight'[p] = Raised[p]
          /\ current_weight'[b] = Raised[b] + (-Total)
      BY <2>1, <2>2, <2>5
    <3>2. -Total \in Int /\ Total + (-Total) = 0
      BY <2>2
    <3>3. SumOver(current_weight', Peer) = SumOver(Raised, Peer) + (-Total)
      BY <3>1, <3>2, Peers, SumChange
    <3> QED BY <2>4, <3>2, <3>3
  <2>8. ASSUME NEW p \in Peer
        PROVE  /\ current_weight'[p] = round' * weight'[p] - Total' * picks'[p]
               /\ current_weight'[p] > -Total'
    <3> DEFINE rw == round * weight[p]
               tp == Total * picks[p]
    <3>1. /\ weight[p] \in Nat \ {0} /\ round \in Nat /\ picks[p] \in Nat
          /\ rw \in Int /\ tp \in Int
      BY <2>2 DEF Typed
    <3>2. round' * weight'[p] = rw + weight[p]
      <4>1. round' = round + 1 /\ weight'[p] = weight[p]
        BY <2>1
      <4>2. (round + 1) * weight[p] = round * weight[p] + weight[p]
        BY <3>1, OneMore
      <4> QED BY <4>1, <4>2
    <3>3. Raised[p] = rw - tp + weight[p] /\ Raised[p] > -Total
      BY <2>2, <3>1 DEF Raised, IInv
    <3>4. CASE p = b
      <4>1. picks'[p] = picks[p] + 1 /\ current_weight'[p] = Raised[p] - Total
        BY <2>1, <2>2, <2>5, <3>4 DEF Typed
      <4>2. Total' * picks'[p] = tp + Total
        BY <2>2, <2>3, <3>1, <4>1, OneMore
      <4> HIDE DEF rw, tp
      <4> QED BY <2>2, <2>3, <2>4, <3>1, <3>2, <3>3, <3>4, <4>1, <4>2
    <3>5. CASE p # b
      <4>1. picks'[p] = picks[p] /\ current_weight'[p] = Raised[p]
        BY <2>1, <2>2, <2>5, <3>5 DEF Typed
      <4>2. Total' * picks'[p] = tp
        BY <2>3, <4>1
      <4> HIDE DEF rw, tp
      <4> QED BY <2>2, <2>3, <3>1, <3>2, <3>3, <4>1, <4>2
    <3> QED BY <3>4, <3>5
  <2> QED BY <2>6, <2>7, <2>8 DEF IInv
<1> QED BY <1>1, <1>2

\* The account makes the choice fair.
LEMMA IInvFair == IInv => NeverAhead /\ CycleExact
<1> SUFFICES ASSUME IInv PROVE NeverAhead /\ CycleExact
  OBVIOUS
<1>1. Typed /\ Total \in Int /\ Total > 0 /\ Cycle = Total
  BY TotalPositive DEF IInv, Cycle, Total
<1>2. NeverAhead
  <2> SUFFICES ASSUME NEW p \in Peer
               PROVE  Cycle * picks[p] - round * weight[p] < Cycle
    BY DEF NeverAhead
  <2> DEFINE rw == round * weight[p]
             tp == Total * picks[p]
  <2>1. rw \in Int /\ tp \in Int
    BY <1>1 DEF Typed
  <2>2. rw - tp > -Total
    BY DEF IInv
  <2> HIDE DEF rw, tp
  <2>3. tp - rw < Total
    BY <1>1, <2>1, <2>2
  <2> QED BY <1>1, <2>3 DEF rw, tp
<1>3. CycleExact
  <2> SUFFICES ASSUME round % Total = 0
               PROVE  \A p \in Peer : /\ picks[p] = (round \div Total) * weight[p]
                                      /\ current_weight[p] = 0
    BY <1>1 DEF CycleExact
  <2> DEFINE k == round \div Total
  <2>1. k \in Int /\ round = Total * k
    BY <1>1 DEF Typed
  <2> HIDE DEF k
  <2>2. ASSUME NEW p \in Peer
        PROVE  /\ current_weight[p] = Total * (k * weight[p] - picks[p])
               /\ current_weight[p] >= 0
    <3> DEFINE d == k * weight[p] - picks[p]
    <3>1. weight[p] \in Int /\ picks[p] \in Int /\ d \in Int
      BY <1>1, <2>1 DEF Typed
    <3>2. round * weight[p] - Total * picks[p] = Total * d
      <4> DEFINE t == Total
                 w == weight[p]
                 c == picks[p]
      <4>1. t \in Int /\ k \in Int /\ w \in Int /\ c \in Int
        BY <1>1, <2>1, <3>1
      <4>2. round * weight[p] = (t * k) * w
        BY <2>1
      <4> HIDE DEF t, w, c
      <4>3. (t * k) * w - t * c = t * (k * w - c)
        BY <4>1, Owed
      <4> QED BY <4>2, <4>3 DEF t, w, c
    <3>3. current_weight[p] = Total * d /\ current_weight[p] > -Total
      BY <3>2 DEF IInv
    <3> HIDE DEF d
    <3>4. Total * d >= 0
      BY <1>1, <3>1, <3>3, NoDebt
    <3> QED BY <3>3, <3>4 DEF d
  <2>3. \A p \in Peer : current_weight[p] \in Int /\ current_weight[p] >= 0
    BY <1>1, <2>2 DEF Typed
  <2>4. \A p \in Peer : current_weight[p] <= 0
    BY <2>3, Peers, SumNonneg DEF IInv
  <2>5. ASSUME NEW p \in Peer
        PROVE  picks[p] = k * weight[p] /\ current_weight[p] = 0
    <3> DEFINE d == k * weight[p] - picks[p]
    <3>1. weight[p] \in Int /\ picks[p] \in Int /\ d \in Int
          /\ k * weight[p] \in Int
      BY <1>1, <2>1 DEF Typed
    <3>2. current_weight[p] = 0
      BY <2>3, <2>4
    <3>3. Total * d = 0
      BY <2>2, <3>2
    <3>4. d = 0
      <4> HIDE DEF d
      <4> QED BY <1>1, <3>1, <3>3, NoDebt
    <3>5. picks[p] = k * weight[p]
      BY <3>1, <3>4
    <3> QED BY <3>2, <3>5
  <2> QED BY <2>5 DEF k
<1> QED BY <1>2, <1>3

\* However long get_peer goes on choosing, no peer is ever a whole request
\* ahead of its share, and each cycle of as many choices as the weights add up
\* to chooses every peer exactly weight times.
THEOREM FairForever == Init /\ [][GetPeer]_vars => [](NeverAhead /\ CycleExact)
BY InitIInv, GetPeerKeeps, IInvFair, PTL

\* No peer is chosen a whole request more often than its share.
THEOREM SmoothNeverAhead == Spec => []NeverAhead
<1>1. [Next]_vars => [GetPeer]_vars
  BY DEF Next
<1> QED BY <1>1, InitIInv, GetPeerKeeps, IInvFair, PTL DEF Spec

\* Each cycle is exact and leaves nothing behind.
THEOREM SmoothCycleExact == Spec => []CycleExact
<1>1. [Next]_vars => [GetPeer]_vars
  BY DEF Next
<1> QED BY <1>1, InitIInv, GetPeerKeeps, IInvFair, PTL DEF Spec
=============================================================================
