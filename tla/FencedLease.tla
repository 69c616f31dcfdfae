------------------------------ MODULE FencedLease ------------------------------
(***************************************************************************)
(* What the session authority promises to everybody who holds or checks a   *)
(* writer lease.  At most one operation holds the session.  It was granted  *)
(* an epoch above every epoch in use before, it never gets a second grant,  *)
(* and it holds the session until somebody vacates it.  Between, the epoch  *)
(* may be advanced past the holder's own, which revokes it: from then on    *)
(* the holder is out, whether or not it has noticed.                        *)
(***************************************************************************)
EXTENDS Integers, TLAPS

CONSTANTS Holder, Nobody, LastEpoch

\* Nobody stands for no holder.
NobodyIsNone == Nobody \notin Holder

VARIABLES
    epoch,    \* the session's writer epoch
    holder,   \* who holds the session, or Nobody
    granted   \* the epoch each holder was granted, 0 before any grant

leaseVars == <<epoch, holder, granted>>

LeaseInit ==
    /\ epoch = 0
    /\ holder = Nobody
    /\ granted = [h \in Holder |-> 0]

\* Mutant: the lease is minted and the session's epoch stays.
GrantAheadOfEpoch(h) ==
    /\ holder = Nobody
    /\ granted[h] = 0
    /\ epoch < LastEpoch
    /\ holder' = h
    /\ granted' = [granted EXCEPT ![h] = epoch + 1]
    /\ UNCHANGED epoch

\* A dispatched acquisition or activation mints a lease of the next epoch.
Grant(h) ==
    /\ holder = Nobody
    /\ granted[h] = 0
    /\ epoch < LastEpoch
    /\ epoch' = epoch + 1
    /\ holder' = h
    /\ granted' = [granted EXCEPT ![h] = epoch + 1]

\* A dispatched force fence moves the epoch past the holder's.
Revoke ==
    /\ holder # Nobody
    /\ epoch < LastEpoch
    /\ epoch' = epoch + 1
    /\ UNCHANGED <<holder, granted>>

\* A finished release or force fence drops the lease.
Vacate ==
    /\ holder # Nobody
    /\ holder' = Nobody
    /\ UNCHANGED <<epoch, granted>>

LeaseNext == (\E h \in Holder : Grant(h)) \/ Revoke \/ Vacate

LeaseSpec == LeaseInit /\ [][LeaseNext]_leaseVars

\* At most one grant per epoch: of two writers the provider can tell which one
\* is the later.
OneGrantPerEpoch ==
    \A g, h \in Holder : granted[g] = granted[h] /\ granted[g] # 0 => g = h

\* The holder has the latest grant, and no grant is ahead of the epoch.
HolderIsLatest ==
    /\ holder # Nobody => granted[holder] # 0
    /\ \A h \in Holder :
         /\ granted[h] \in 0 .. epoch
         /\ holder # Nobody => granted[h] <= granted[holder]

--------------------------------------------------------------------------------
(* What the lease guarantees for any set of holders and any bound on       *)
(* epochs.                                                                 *)

LeaseTypeOK ==
    /\ epoch \in Nat
    /\ holder \in Holder \cup {Nobody}
    /\ granted \in [Holder -> Nat]

\* OneGrantPerEpoch alone is not inductive: a grant is fresh because no grant
\* is ahead of the epoch.
LeaseInv == LeaseTypeOK /\ OneGrantPerEpoch /\ HolderIsLatest

LEMMA LeaseInitInv == NobodyIsNone /\ LeaseInit => LeaseInv
BY DEF NobodyIsNone, LeaseInit, LeaseInv, LeaseTypeOK, OneGrantPerEpoch, HolderIsLatest

LEMMA GrantInv ==
    ASSUME NobodyIsNone, LeaseInv, NEW h \in Holder, Grant(h)
    PROVE  LeaseInv'
<1> USE DEF LeaseInv, LeaseTypeOK, Grant
<1>1. LeaseTypeOK'
  OBVIOUS
<1>2. OneGrantPerEpoch' BY DEF OneGrantPerEpoch, HolderIsLatest
<1>3. HolderIsLatest' BY DEF NobodyIsNone, HolderIsLatest
<1> QED BY <1>1, <1>2, <1>3

LEMMA LeaseStepInv ==
    ASSUME NobodyIsNone, LeaseInv, [LeaseNext]_leaseVars
    PROVE  LeaseInv'
<1>1. CASE \E h \in Holder : Grant(h) BY <1>1, GrantInv
<1>2. CASE Revoke
  BY <1>2 DEF Revoke, LeaseInv, LeaseTypeOK, OneGrantPerEpoch, HolderIsLatest
<1>3. CASE Vacate
  BY <1>3 DEF Vacate, LeaseInv, LeaseTypeOK, OneGrantPerEpoch, HolderIsLatest
<1>4. CASE UNCHANGED leaseVars
  BY <1>4 DEF leaseVars, LeaseInv, LeaseTypeOK, OneGrantPerEpoch, HolderIsLatest
<1> QED BY <1>1, <1>2, <1>3, <1>4 DEF LeaseNext

LEMMA LeaseInvariance ==
    ASSUME NobodyIsNone
    PROVE  LeaseSpec => []LeaseInv
BY LeaseInitInv, LeaseStepInv, PTL DEF LeaseSpec

\* No two grants share an epoch, so a provider that sees two writers can tell
\* which one was granted later (nextWriterEpoch).
THEOREM OneGrantPerEpochTheorem ==
    ASSUME NobodyIsNone
    PROVE  LeaseSpec => []OneGrantPerEpoch
<1>1. LeaseInv => OneGrantPerEpoch BY DEF LeaseInv
<1> QED BY <1>1, LeaseInvariance, PTL

\* The holder has the latest grant and no grant is ahead of the epoch.
THEOREM HolderIsLatestTheorem ==
    ASSUME NobodyIsNone
    PROVE  LeaseSpec => []HolderIsLatest
<1>1. LeaseInv => HolderIsLatest BY DEF LeaseInv
<1> QED BY <1>1, LeaseInvariance, PTL

================================================================================
