----------------------------- MODULE FeedsProofs -----------------------------
(***************************************************************************)
(* Proofs about Feeds, for every set of endpoints and feeds.  What is      *)
(* proved here of the registry holds of every client that implements it.   *)
(***************************************************************************)
EXTENDS Feeds, TLAPS

TypeOK ==
    /\ registered \in [Url -> Feed \cup {None}]
    /\ of \in [Feed -> Url \cup {None}]
    /\ live \subseteq Feed /\ destroyed \subseteq Feed

\* A feed was started before it runs, is registered or is destroyed, and is
\* registered under its own endpoint only.
PlaceInv ==
    /\ \A f \in live \cup destroyed : of[f] # None
    /\ \A u \in Url : registered[u] # None => of[registered[u]] = u

FInv == TypeOK /\ PlaceInv /\ DestroyedAtRest /\ OneOutOfPlace

LEMMA InitFInv == Init => FInv
BY DEF Init, FInv, TypeOK, PlaceInv, DestroyedAtRest, OneOutOfPlace

\* Start, Register and Unregister put one feed out of place when there is no
\* other; Destroy and Remove take feeds that no longer run.
LEMMA NextFInv ==
    ASSUME None \notin Feed \cup Url, FInv, [Next]_vars
    PROVE  FInv'
<1> USE DEF FInv, TypeOK, PlaceInv, DestroyedAtRest, OneOutOfPlace
<1>1. CASE UNCHANGED vars
  BY <1>1 DEF vars
<1>2. ASSUME NEW f \in Feed, NEW u \in Url, Start(f, u) PROVE FInv'
  BY <1>2 DEF Start, Settled
<1>3. ASSUME NEW f \in Feed, Register(f) PROVE FInv'
  BY <1>3 DEF Register
<1>4. ASSUME NEW f \in Feed, End(f) PROVE FInv'
  BY <1>4 DEF End
<1>5. ASSUME NEW f \in Feed, Destroy(f) PROVE FInv'
  BY <1>5 DEF Destroy
<1>6. ASSUME NEW u \in Url, Unregister(u) PROVE FInv'
  BY <1>6 DEF Unregister, Settled
<1>7. ASSUME NEW S \in SUBSET {u \in Url : registered[u] # None}, Remove(S) PROVE FInv'
  BY <1>7 DEF Remove
<1> QED BY <1>1, <1>2, <1>3, <1>4, <1>5, <1>6, <1>7 DEF Next

\* The registry's inductive invariant: of any feeds that run, at most the one
\* the call under way is moving is out of place.
THEOREM FeedsInvariance ==
    ASSUME None \notin Feed \cup Url
    PROVE  Spec => []FInv
BY InitFInv, NextFInv, PTL DEF Spec

\* A destroyed feed neither runs nor is registered, and at most one feed is
\* out of place.
THEOREM RegistryKept ==
    ASSUME None \notin Feed \cup Url
    PROVE  Spec => [](DestroyedAtRest /\ OneOutOfPlace)
<1>1. FInv => DestroyedAtRest /\ OneOutOfPlace
  BY DEF FInv
<1> QED BY FeedsInvariance, <1>1, PTL

\* A feed runs once, for one endpoint.
THEOREM EndedForGood ==
    ASSUME None \notin Feed \cup Url
    PROVE  Spec => EndsForGood
<1> DEFINE A == \A f \in Feed : of[f] # None =>
                    of'[f] = of[f] /\ (f \notin live => f \notin live')
<1>1. FInv /\ [Next]_vars => [A]_vars
  BY DEF FInv, TypeOK, Next, Start, Register, Unregister, End, Destroy, Remove
<1> QED BY FeedsInvariance, <1>1, PTL DEF Spec, EndsForGood

=============================================================================
