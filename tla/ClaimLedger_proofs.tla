--------------------------- MODULE ClaimLedger_proofs ---------------------------
(***************************************************************************)
(* Proofs about the policy register and the claim ledger composed with it, *)
(* for any number of accounts, terms, policies, documents, claims, rounds  *)
(* and retries and without a bound on the clock's values.                  *)
(*                                                                         *)
(* First the register alone, as PolicySpec lets it run: its types, that a  *)
(* policy is one line of succession, and that versions only close.  Then   *)
(* the ledger: its types, the invariant that ties the document registry to *)
(* the receipts, and that no two claims are consumable together on one     *)
(* document.                                                               *)
(***************************************************************************)
EXTENDS ClaimLedger, SequenceTheorems, WellFoundedInduction, TLAPS

-------------------------------------------------------------------------------
(* The policy register.                                                    *)

(* What the register keeps of a sequence of versions when one is changed   *)
(* in place or appended.                                                   *)
LEMMA NewVersionType ==
    ASSUME PolicyTypeOK, NEW s \in Accounts, NEW d \in Definitions
    PROVE  NewVersion(s, d) \in PolicyVersion
BY DEF PolicyTypeOK, NewVersion, PolicyVersion, PolicyStatus, Never

LEMMA SupersededType ==
    ASSUME PolicyTypeOK, NEW pv \in PolicyVersion
    PROVE  Superseded(pv) \in PolicyVersion
BY DEF PolicyTypeOK, Superseded, PolicyVersion, PolicyStatus, Never

LEMMA VersionsType ==
    ASSUME PolicyTypeOK, NEW p \in DOMAIN policies
    PROVE  /\ policies[p] \in Seq(PolicyVersion)
           /\ Len(policies[p]) \in Nat \ {0}
           /\ DOMAIN policies[p] = 1..Len(policies[p])
           /\ \A v \in 1..Len(policies[p]) : policies[p][v] \in PolicyVersion
           /\ Latest(p) \in PolicyVersion
<1>1. policies[p] \in Seq(PolicyVersion)
  BY ElementOfSeq DEF PolicyTypeOK
<1>2. Len(policies[p]) > 0
  BY DEF PolicyTypeOK
<1>3. /\ Len(policies[p]) \in Nat \ {0}
      /\ DOMAIN policies[p] = 1..Len(policies[p])
  BY <1>1, <1>2, LenProperties
<1>4. \A v \in 1..Len(policies[p]) : policies[p][v] \in PolicyVersion
  BY <1>1, ElementOfSeq
<1>5. QED
  BY <1>1, <1>3, <1>4 DEF Latest, PolicyHead

(* Replacing one policy's versions by a non-empty list of versions.        *)
LEMMA ReplacedType ==
    ASSUME PolicyTypeOK, NEW p \in DOMAIN policies,
           NEW versions \in Seq(PolicyVersion), Len(versions) > 0,
           policies' = [policies EXCEPT ![p] = versions], UNCHANGED now
    PROVE  PolicyTypeOK'
<1>1. p \in 1..Len(policies)
  BY LenProperties DEF PolicyTypeOK
<1>2. policies' \in Seq(Seq(PolicyVersion))
  BY <1>1, ExceptSeq DEF PolicyTypeOK
<1>3. \A q \in DOMAIN policies' : Len(policies'[q]) > 0
  BY DEF PolicyTypeOK
<1>4. QED
  BY <1>2, <1>3 DEF PolicyTypeOK

LEMMA LatestClosedType ==
    ASSUME PolicyTypeOK, NEW p \in DOMAIN policies
    PROVE  /\ LatestClosed(p) \in Seq(PolicyVersion)
           /\ Len(LatestClosed(p)) = Len(policies[p])
<1>1. PolicyHead(p) \in 1..Len(policies[p])
  BY VersionsType DEF PolicyHead
<1>2. Superseded(Latest(p)) \in PolicyVersion
  BY VersionsType, SupersededType
<1>3. QED
  BY <1>1, <1>2, VersionsType, ExceptSeq DEF LatestClosed

LEMMA PolicyStepType ==
    ASSUME PolicyTypeOK, [PolicyNext]_policyVars
    PROVE  PolicyTypeOK'
<1>1. ASSUME NEW s \in Accounts, NEW d \in Definitions, CreatePolicy(s, d)
      PROVE  PolicyTypeOK'
  <2>1. <<NewVersion(s, d)>> \in Seq(PolicyVersion)
    BY NewVersionType
  <2>2. policies' \in Seq(Seq(PolicyVersion))
    BY <1>1, <2>1, AppendProperties DEF CreatePolicy, PolicyTypeOK
  <2>3. \A p \in DOMAIN policies' : Len(policies'[p]) > 0
    BY <1>1, <2>1, AppendProperties, LenProperties
       DEF CreatePolicy, PolicyTypeOK
  <2>4. QED
    BY <1>1, <2>2, <2>3 DEF CreatePolicy, PolicyTypeOK
<1>2. ASSUME NEW s \in Accounts, NEW p \in DOMAIN policies,
             NEW d \in Definitions, PublishPolicyVersion(s, p, d)
      PROVE  PolicyTypeOK'
  <2> DEFINE versions == Append(LatestClosed(p), NewVersion(s, d))
  <2>1. LatestClosed(p) \in Seq(PolicyVersion)
    BY LatestClosedType
  <2>2. versions \in Seq(PolicyVersion) /\ Len(versions) > 0
    BY <2>1, NewVersionType, AppendProperties, LenProperties
  <2>3. policies' = [policies EXCEPT ![p] = versions]
    BY <1>2 DEF PublishPolicyVersion
  <2> HIDE DEF versions
  <2>4. QED
    BY <1>2, <2>2, <2>3, ReplacedType DEF PublishPolicyVersion
<1>3. ASSUME NEW s \in Accounts, NEW p \in DOMAIN policies,
             NEW v \in DOMAIN policies[p], RevokePolicyVersion(s, p, v)
      PROVE  PolicyTypeOK'
  <2> DEFINE versions == [policies[p] EXCEPT ![v] = Revoked(policies[p][v])]
  <2>1. Revoked(policies[p][v]) \in PolicyVersion
    BY VersionsType DEF Revoked, PolicyTypeOK, PolicyVersion, PolicyStatus, Never
  <2>2. versions \in Seq(PolicyVersion) /\ Len(versions) > 0
    BY <2>1, VersionsType, ExceptSeq
  <2>3. policies' = [policies EXCEPT ![p] = versions]
    BY <1>3 DEF RevokePolicyVersion
  <2> HIDE DEF versions
  <2>4. QED
    BY <1>3, <2>2, <2>3, ReplacedType DEF RevokePolicyVersion
<1>4. ASSUME Tick PROVE PolicyTypeOK'
  BY <1>4 DEF Tick, PolicyTypeOK, Never
<1>5. ASSUME UNCHANGED policyVars PROVE PolicyTypeOK'
  BY <1>5 DEF policyVars, PolicyTypeOK
<1>6. QED
  BY <1>1, <1>2, <1>3, <1>4, <1>5 DEF PolicyNext

(* now and policies always have their types, and no policy is without a    *)
(* version: there always is a latest version to read.                      *)
THEOREM PolicyTypeCorrect == PolicySpec => []PolicyTypeOK
<1>1. PolicyInit => PolicyTypeOK
  BY DEF PolicyInit, PolicyTypeOK, Never
<1>2. PolicyTypeOK /\ [PolicyNext]_policyVars => PolicyTypeOK'
  BY PolicyStepType
<1>3. QED
  BY <1>1, <1>2, PTL DEF PolicySpec

-------------------------------------------------------------------------------
\* How the versions below the latest, n, and its successor lie.
LEMMA Below ==
    ASSUME NEW n \in Nat \ {0}
    PROVE  /\ n \in 1..n /\ n + 1 \in 1..n+1
           /\ \A v \in 1..n : v # n => v < n /\ v + 1 \in 1..n
           /\ \A v \in 1..n+1 : v \in 1..n \/ v = n + 1
           /\ \A v, w \in 1..n+1 : v < w =>
                 v \in 1..n /\ (v = n => w = n + 1)
OBVIOUS

(* The successor of a version list: the last entry closed if it was open,  *)
(* every other entry as it was, and one new entry.                         *)
LEMMA PublishedVersions ==
    ASSUME PolicyTypeOK, NEW s \in Accounts, NEW p \in DOMAIN policies,
           NEW d \in Definitions, PublishPolicyVersion(s, p, d)
    PROVE  LET old == policies[p]
               new == policies'[p]
               n == Len(policies[p])
           IN /\ DOMAIN policies' = DOMAIN policies
              /\ \A q \in DOMAIN policies : q # p => policies'[q] = policies[q]
              /\ DOMAIN new = 1..n+1 /\ Len(new) = n + 1
              /\ \A v \in 1..n : v # n => new[v] = old[v]
              /\ new[n] = Superseded(old[n])
              /\ new[n+1] = NewVersion(s, d)
<1> DEFINE n == Len(policies[p])
           versions == Append(LatestClosed(p), NewVersion(s, d))
<1>1. /\ LatestClosed(p) \in Seq(PolicyVersion)
      /\ Len(LatestClosed(p)) = n
      /\ n \in Nat \ {0}
  BY LatestClosedType, VersionsType
<1>2. \A v \in 1..n : LatestClosed(p)[v] = IF v = n THEN Superseded(policies[p][n])
                                                    ELSE policies[p][v]
  BY VersionsType DEF LatestClosed, Latest, PolicyHead
<1>3. /\ versions \in Seq(PolicyVersion) /\ Len(versions) = n + 1
      /\ \A v \in 1..n : versions[v] = LatestClosed(p)[v]
      /\ versions[n+1] = NewVersion(s, d)
  BY <1>1, NewVersionType, AppendProperties
<1>4. DOMAIN versions = 1..n+1
  BY <1>3, LenProperties
<1>5. policies' = [policies EXCEPT ![p] = versions]
  BY DEF PublishPolicyVersion
<1> HIDE DEF versions
<1>6. policies'[p] = versions /\ n \in 1..n
  BY <1>5, <1>1
<1>7. QED
  BY <1>1, <1>2, <1>3, <1>4, <1>5, <1>6

LEMMA RevokedVersions ==
    ASSUME PolicyTypeOK, NEW s \in Accounts, NEW p \in DOMAIN policies,
           NEW v \in DOMAIN policies[p], RevokePolicyVersion(s, p, v)
    PROVE  /\ DOMAIN policies' = DOMAIN policies
           /\ \A q \in DOMAIN policies : q # p => policies'[q] = policies[q]
           /\ DOMAIN policies'[p] = DOMAIN policies[p]
           /\ \A w \in DOMAIN policies[p] : w # v => policies'[p][w] = policies[p][w]
           /\ policies'[p][v] = Revoked(policies[p][v])
BY VersionsType DEF RevokePolicyVersion

(* No policy and no version is ever removed.                               *)
LEMMA VersionsPersist ==
    ASSUME PolicyTypeOK, [PolicyNext]_policyVars
    PROVE  \A p \in DOMAIN policies :
              /\ p \in DOMAIN policies'
              /\ DOMAIN policies[p] \subseteq DOMAIN policies'[p]
<1>1. ASSUME NEW s \in Accounts, NEW d \in Definitions, CreatePolicy(s, d)
      PROVE  \A p \in DOMAIN policies :
                p \in DOMAIN policies' /\ policies'[p] = policies[p]
  BY <1>1, NewVersionType, AppendProperties, LenProperties
     DEF CreatePolicy, PolicyTypeOK
<1>2. ASSUME NEW s \in Accounts, NEW q \in DOMAIN policies,
             NEW d \in Definitions, PublishPolicyVersion(s, q, d)
      PROVE  \A p \in DOMAIN policies :
                /\ p \in DOMAIN policies'
                /\ DOMAIN policies[p] \subseteq DOMAIN policies'[p]
  <2>1. /\ DOMAIN policies' = DOMAIN policies
        /\ \A p \in DOMAIN policies : p # q => policies'[p] = policies[p]
        /\ DOMAIN policies'[q] = 1..Len(policies[q])+1
    BY <1>2, PublishedVersions
  <2>2. DOMAIN policies[q] \subseteq DOMAIN policies'[q]
    BY <2>1, VersionsType
  <2>3. QED
    BY <2>1, <2>2
<1>3. ASSUME NEW s \in Accounts, NEW q \in DOMAIN policies,
             NEW v \in DOMAIN policies[q], RevokePolicyVersion(s, q, v)
      PROVE  \A p \in DOMAIN policies :
                p \in DOMAIN policies' /\ DOMAIN policies'[p] = DOMAIN policies[p]
  BY <1>3, RevokedVersions
<1>4. (Tick \/ UNCHANGED policyVars) => policies' = policies
  BY DEF Tick, policyVars
<1>5. QED
  BY <1>1, <1>2, <1>3, <1>4 DEF PolicyNext

SuccessionInv == PolicyTypeOK /\ SuccessionSupport /\ SingleLineOfSuccession

(* Every version but the latest of a policy is closed, all its versions    *)
(* have one owner, and they follow each other in time: the history that    *)
(* submit_claim and the owner checks read only the head of.                *)
THEOREM SuccessionCorrect == PolicySpec => []SingleLineOfSuccession
<1>1. PolicyInit => SuccessionInv
  BY DEF PolicyInit, SuccessionInv, PolicyTypeOK, SuccessionSupport,
         SingleLineOfSuccession, Never
<1>2. SuccessionInv /\ PolicyTypeOK' /\ [PolicyNext]_policyVars => SuccessionInv'
  <2> SUFFICES ASSUME SuccessionInv, PolicyTypeOK', [PolicyNext]_policyVars
               PROVE  SuccessionSupport' /\ SingleLineOfSuccession'
    BY DEF SuccessionInv
  <2> USE DEF SuccessionInv
  <2>1. ASSUME NEW s \in Accounts, NEW d \in Definitions, CreatePolicy(s, d)
        PROVE  SuccessionSupport' /\ SingleLineOfSuccession'
    <3> DEFINE first == <<NewVersion(s, d)>>
    <3>1. /\ DOMAIN policies' = 1..Len(policies) + 1
          /\ \A q \in DOMAIN policies : policies'[q] = policies[q]
          /\ policies'[Len(policies) + 1] = first
          /\ DOMAIN policies = 1..Len(policies)
          /\ Len(policies) \in Nat
      <4>1. first \in Seq(PolicyVersion)
        BY NewVersionType
      <4>2. QED
        BY <2>1, <4>1, AppendProperties, LenProperties
           DEF CreatePolicy, PolicyTypeOK
    <3>2. /\ DOMAIN first = {1} /\ Len(first) = 1 /\ first[1].created_at = now
          /\ first[1].status = "ACTIVE" /\ now \in Nat
      BY DEF NewVersion, PolicyTypeOK
    <3> HIDE DEF first
    <3>3. \A q \in DOMAIN policies' : q \in DOMAIN policies \/ q = Len(policies) + 1
      BY <3>1
    <3>4. now' = now
      BY <2>1 DEF CreatePolicy
    <3>5. SuccessionSupport'
      <4>1. ASSUME NEW q \in DOMAIN policies'
            PROVE  /\ \A v \in DOMAIN policies'[q] : policies'[q][v].created_at <= now
                   /\ policies'[q][Len(policies'[q])].status # "SUPERSEDED"
        <5>1. CASE q \in DOMAIN policies
          BY <3>1, <5>1 DEF SuccessionSupport, Latest, PolicyHead
        <5>2. CASE q = Len(policies) + 1
          <6>1. policies'[q] = first
            BY <3>1, <5>2
          <6>2. \A v \in DOMAIN first : first[v].created_at <= now
            BY <3>2
          <6>3. first[Len(first)].status # "SUPERSEDED"
            BY <3>2
          <6>4. QED
            BY <6>1, <6>2, <6>3
        <5>3. QED
          BY <3>3, <5>1, <5>2
      <4>2. QED
        BY <3>4, <4>1 DEF SuccessionSupport, Latest, PolicyHead
    <3>6. SingleLineOfSuccession'
      BY <3>1, <3>2, <3>3 DEF SingleLineOfSuccession
    <3>7. QED
      BY <3>5, <3>6
  <2>2. ASSUME NEW s \in Accounts, NEW p \in DOMAIN policies,
               NEW d \in Definitions, PublishPolicyVersion(s, p, d)
        PROVE  SuccessionSupport' /\ SingleLineOfSuccession'
    <3> DEFINE n == Len(policies[p])
               old == policies[p]
               new == policies'[p]
    <3>1. /\ DOMAIN policies' = DOMAIN policies
          /\ \A q \in DOMAIN policies : q # p => policies'[q] = policies[q]
          /\ DOMAIN new = 1..n+1 /\ Len(new) = n + 1
          /\ \A v \in 1..n : v # n => new[v] = old[v]
          /\ new[n] = Superseded(old[n])
          /\ new[n+1] = NewVersion(s, d)
      BY <2>2, PublishedVersions
    <3>2. /\ n \in Nat \ {0} /\ now \in Nat /\ now' = now
          /\ DOMAIN old = 1..n
          /\ \A v \in 1..n : old[v] \in PolicyVersion
      BY <2>2, VersionsType DEF PublishPolicyVersion, PolicyTypeOK
    <3>3. /\ new[n+1].created_at = now /\ new[n+1].owner = s
          /\ new[n+1].status = "ACTIVE"
      BY <3>1 DEF NewVersion
    <3>4. s = old[n].owner
      BY <2>2 DEF PublishPolicyVersion, Latest, PolicyHead
    <3>5. /\ new[n].owner = old[n].owner
          /\ new[n].created_at = old[n].created_at
          /\ new[n].status # "ACTIVE"
          /\ new[n].status = "SUPERSEDED" => new[n].closed_at = now
      <4>1. old[n].status # "SUPERSEDED"
        BY DEF SuccessionSupport, Latest, PolicyHead
      <4>2. QED
        BY <3>1, <3>2, <4>1 DEF Superseded, PolicyVersion
    <3>6. \A v \in 1..n : /\ old[v].created_at <= now
                          /\ old[v].created_at \in Nat
                          /\ old[v].owner = s
      <4>1. \A v \in 1..n : old[v].created_at <= now
        BY <3>2 DEF SuccessionSupport
      <4>2. \A v \in 1..n : v < n => old[v].owner = old[n].owner
        BY <3>2 DEF SingleLineOfSuccession
      <4>3. \A v \in 1..n : old[v].created_at \in Nat
        BY <3>2 DEF PolicyVersion
      <4>4. \A v \in 1..n : v = n \/ v < n
        BY <3>2, Below
      <4>5. QED
        BY <3>4, <4>1, <4>2, <4>3, <4>4
    <3>7. \A v \in 1..n : new[v].created_at = old[v].created_at /\ new[v].owner = s
      BY <3>1, <3>5, <3>6
    <3>8. SuccessionSupport'
      <4>1. Len(new) = n + 1
        BY <3>1
      <4>2. \A v \in DOMAIN new : new[v].created_at <= now
        <5>1. \A v \in 1..n : new[v].created_at <= now
          BY <3>6, <3>7
        <5>2. \A v \in 1..n+1 : v \in 1..n \/ v = n + 1
          BY <3>2, Below
        <5>3. now <= now
          BY <3>2
        <5>4. QED
          BY <3>1, <3>3, <5>1, <5>2, <5>3
      <4>3. \A q \in DOMAIN policies : q # p =>
               Latest(q)' = Latest(q)
        BY <3>1 DEF Latest, PolicyHead
      <4>4. Latest(p)'.status = "ACTIVE"
        BY <3>1, <3>3, <4>1 DEF Latest, PolicyHead
      <4>5. QED
        BY <3>1, <3>2, <4>2, <4>3, <4>4 DEF SuccessionSupport
    <3>9. \A v, w \in 1..n+1 : v < w =>
             /\ new[v].status # "ACTIVE"
             /\ new[v].owner = new[w].owner
             /\ new[v].created_at <= new[w].created_at
             /\ new[v].status = "SUPERSEDED" =>
                    new[v].closed_at = new[v+1].created_at
      <4> SUFFICES ASSUME NEW v \in 1..n+1, NEW w \in 1..n+1, v < w
                   PROVE  /\ new[v].status # "ACTIVE"
                          /\ new[v].owner = new[w].owner
                          /\ new[v].created_at <= new[w].created_at
                          /\ new[v].status = "SUPERSEDED" =>
                                 new[v].closed_at = new[v+1].created_at
        OBVIOUS
      <4>1. v \in 1..n /\ (w \in 1..n \/ w = n + 1)
        BY <3>2, Below
      <4>2. new[v].owner = new[w].owner
        BY <3>3, <3>7, <4>1
      <4>3. CASE v = n
        <5>1. w = n + 1
          BY <3>2, <4>3, Below
        <5>2. QED
          BY <3>3, <3>5, <3>6, <4>2, <4>3, <5>1, <4>1
      <4>4. CASE v # n
        <5>1. new[v] = old[v] /\ v + 1 \in 1..n /\ v \in 1..n /\ n \in 1..n
          <6>1. v # n /\ v + 1 \in 1..n /\ v \in 1..n /\ n \in 1..n
            BY <3>2, <4>1, <4>4, Below
          <6>2. QED
            BY <3>1, <6>1
        <5>2. /\ old[v].status # "ACTIVE"
              /\ old[v].created_at <= old[n].created_at
              /\ old[v].status = "SUPERSEDED" => old[v].closed_at = old[v+1].created_at
          BY <3>2, <5>1, <4>4, Below DEF SingleLineOfSuccession
        <5>3. new[v+1].created_at = old[v+1].created_at
          BY <3>7, <5>1
        <5>4. new[v].created_at <= new[w].created_at
          <6>1. CASE w \in 1..n
            BY <3>2, <3>7, <4>1, <6>1 DEF SingleLineOfSuccession
          <6>2. CASE w = n + 1
            BY <3>3, <3>6, <3>7, <4>1, <6>2
          <6>3. QED
            BY <4>1, <6>1, <6>2
        <5>5. new[v].status # "ACTIVE"
          BY <5>1, <5>2
        <5>6. new[v].status = "SUPERSEDED" => new[v].closed_at = new[v+1].created_at
          BY <5>1, <5>2, <5>3
        <5>7. QED
          BY <4>2, <5>4, <5>5, <5>6
      <4>5. QED
        BY <4>3, <4>4
    <3>10. SingleLineOfSuccession'
      <4>1. ASSUME NEW q \in DOMAIN policies', NEW v \in DOMAIN policies'[q],
                   NEW w \in DOMAIN policies'[q], v < w
            PROVE  /\ policies'[q][v].status # "ACTIVE"
                   /\ policies'[q][v].owner = policies'[q][w].owner
                   /\ policies'[q][v].created_at <= policies'[q][w].created_at
                   /\ policies'[q][v].status = "SUPERSEDED" =>
                          policies'[q][v].closed_at = policies'[q][v+1].created_at
        <5>1. CASE q = p
          BY <3>1, <3>9, <4>1, <5>1
        <5>2. CASE q # p
          BY <3>1, <4>1, <5>2 DEF SingleLineOfSuccession
        <5>3. QED
          BY <5>1, <5>2
      <4>2. QED
        BY <4>1 DEF SingleLineOfSuccession
    <3>11. QED
      BY <3>8, <3>10
  <2>3. ASSUME NEW s \in Accounts, NEW p \in DOMAIN policies,
               NEW v \in DOMAIN policies[p], RevokePolicyVersion(s, p, v)
        PROVE  SuccessionSupport' /\ SingleLineOfSuccession'
    <3>1. /\ DOMAIN policies' = DOMAIN policies
          /\ \A q \in DOMAIN policies : q # p => policies'[q] = policies[q]
          /\ DOMAIN policies'[p] = DOMAIN policies[p]
          /\ \A w \in DOMAIN policies[p] :
                w # v => policies'[p][w] = policies[p][w]
          /\ policies'[p][v] = Revoked(policies[p][v])
      BY <2>3, RevokedVersions
    <3>2. \A w \in DOMAIN policies[p] :
             /\ policies'[p][w].owner = policies[p][w].owner
             /\ policies'[p][w].created_at = policies[p][w].created_at
             /\ \/ policies'[p][w] = policies[p][w]
                \/ policies'[p][w].status = "REVOKED"
      <4>1. policies[p][v] \in PolicyVersion
        BY VersionsType
      <4>2. /\ Revoked(policies[p][v]).owner = policies[p][v].owner
            /\ Revoked(policies[p][v]).created_at = policies[p][v].created_at
            /\ Revoked(policies[p][v]).status = "REVOKED"
        BY <4>1 DEF Revoked, PolicyVersion
      <4>3. QED
        BY <3>1, <4>2
    <3>3. now' = now
      BY <2>3 DEF RevokePolicyVersion
    <3>4. Len(policies'[p]) = Len(policies[p]) /\ Len(policies[p]) \in DOMAIN policies[p]
      BY <3>1, VersionsType, LenProperties DEF PolicyTypeOK
    <3>5. SuccessionSupport'
      <4>1. \A q \in DOMAIN policies : q # p => Latest(q)' = Latest(q)
        BY <3>1 DEF Latest, PolicyHead
      <4>2. Latest(p)'.status # "SUPERSEDED"
        BY <3>2, <3>4 DEF Latest, PolicyHead, SuccessionSupport
      <4>3. QED
        BY <3>1, <3>2, <3>3, <4>1, <4>2 DEF SuccessionSupport
    <3>6. \A w, x \in DOMAIN policies'[p] : w < x =>
             /\ policies'[p][w].status # "ACTIVE"
             /\ policies'[p][w].owner = policies'[p][x].owner
             /\ policies'[p][w].created_at <= policies'[p][x].created_at
             /\ policies'[p][w].status = "SUPERSEDED" =>
                    policies'[p][w].closed_at = policies'[p][w+1].created_at
      <4> SUFFICES ASSUME NEW w \in DOMAIN policies[p], NEW x \in DOMAIN policies[p],
                          w < x
                   PROVE  /\ policies'[p][w].status # "ACTIVE"
                          /\ policies'[p][w].owner = policies'[p][x].owner
                          /\ policies'[p][w].created_at <= policies'[p][x].created_at
                          /\ policies'[p][w].status = "SUPERSEDED" =>
                                 policies'[p][w].closed_at = policies'[p][w+1].created_at
        BY <3>1
      <4>1. w + 1 \in DOMAIN policies[p]
        BY VersionsType
      <4>2. QED
        BY <3>2, <4>1 DEF SingleLineOfSuccession
    <3>7. SingleLineOfSuccession'
      BY <3>1, <3>6 DEF SingleLineOfSuccession
    <3>8. QED
      BY <3>5, <3>7
  <2>4. ASSUME Tick PROVE SuccessionSupport' /\ SingleLineOfSuccession'
    <3>1. \A p \in DOMAIN policies : \A v \in DOMAIN policies[p] :
             policies[p][v].created_at \in Nat
      BY VersionsType DEF PolicyVersion
    <3>2. QED
      BY <2>4, <3>1 DEF Tick, SuccessionSupport, SingleLineOfSuccession,
                        Latest, PolicyHead, PolicyTypeOK
  <2>5. ASSUME UNCHANGED policyVars
        PROVE  SuccessionSupport' /\ SingleLineOfSuccession'
    BY <2>5 DEF policyVars, SuccessionSupport, SingleLineOfSuccession,
                Latest, PolicyHead
  <2>6. QED
    BY <2>1, <2>2, <2>3, <2>4, <2>5 DEF PolicyNext
<1>3. QED
  BY <1>1, <1>2, PolicyTypeCorrect, PTL DEF PolicySpec, SuccessionInv

-------------------------------------------------------------------------------
(* What a step does to one stored version: nothing, or it closes it.       *)
LEMMA VersionStep ==
    ASSUME PolicyTypeOK, [PolicyNext]_policyVars,
           NEW p \in DOMAIN policies, NEW v \in DOMAIN policies[p]
    PROVE  \/ policies'[p][v] = policies[p][v]
           \/ policies'[p][v] = Superseded(policies[p][v])
           \/ /\ policies[p][v].status # "REVOKED"
              /\ policies'[p][v] = Revoked(policies[p][v])
<1>1. ASSUME NEW s \in Accounts, NEW d \in Definitions, CreatePolicy(s, d)
      PROVE  policies'[p][v] = policies[p][v]
  BY <1>1, NewVersionType, AppendProperties, LenProperties
     DEF CreatePolicy, PolicyTypeOK
<1>2. ASSUME NEW s \in Accounts, NEW q \in DOMAIN policies,
             NEW d \in Definitions, PublishPolicyVersion(s, q, d)
      PROVE  \/ policies'[p][v] = policies[p][v]
             \/ policies'[p][v] = Superseded(policies[p][v])
  <2>1. DOMAIN policies[q] = 1..Len(policies[q])
    BY VersionsType
  <2>2. QED
    BY <1>2, <2>1, PublishedVersions
<1>3. ASSUME NEW s \in Accounts, NEW q \in DOMAIN policies,
             NEW w \in DOMAIN policies[q], RevokePolicyVersion(s, q, w)
      PROVE  \/ policies'[p][v] = policies[p][v]
             \/ /\ policies[p][v].status # "REVOKED"
                /\ policies'[p][v] = Revoked(policies[p][v])
  <2>1. policies[q][w].status # "REVOKED"
    BY <1>3 DEF RevokePolicyVersion
  <2>2. QED
    BY <1>3, <2>1, RevokedVersions
<1>4. (Tick \/ UNCHANGED policyVars) => policies' = policies
  BY DEF Tick, policyVars
<1>5. QED
  BY <1>1, <1>2, <1>3, <1>4 DEF PolicyNext

(* A version that was not there is a new one.                              *)
LEMMA AddedVersions ==
    ASSUME PolicyTypeOK, [PolicyNext]_policyVars,
           NEW p \in DOMAIN policies', NEW v \in DOMAIN policies'[p],
           ~ (p \in DOMAIN policies /\ v \in DOMAIN policies[p])
    PROVE  \E s \in Accounts, d \in Definitions : policies'[p][v] = NewVersion(s, d)
<1>1. ASSUME NEW s \in Accounts, NEW d \in Definitions, CreatePolicy(s, d)
      PROVE  policies'[p][v] = NewVersion(s, d)
  <2>1. <<NewVersion(s, d)>> \in Seq(PolicyVersion)
    BY NewVersionType
  <2>2. /\ DOMAIN policies' = 1..Len(policies) + 1
        /\ DOMAIN policies = 1..Len(policies) /\ Len(policies) \in Nat
        /\ \A q \in DOMAIN policies : policies'[q] = policies[q]
        /\ policies'[Len(policies) + 1] = <<NewVersion(s, d)>>
    BY <1>1, <2>1, AppendProperties, LenProperties DEF CreatePolicy, PolicyTypeOK
  <2>3. p = Len(policies) + 1 /\ policies'[p] = <<NewVersion(s, d)>>
    BY <2>2
  <2>4. QED
    BY <2>3
<1>2. ASSUME NEW s \in Accounts, NEW q \in DOMAIN policies,
             NEW d \in Definitions, PublishPolicyVersion(s, q, d)
      PROVE  policies'[p][v] = NewVersion(s, d)
  <2>1. DOMAIN policies[q] = 1..Len(policies[q]) /\ Len(policies[q]) \in Nat \ {0}
    BY VersionsType
  <2>2. /\ DOMAIN policies' = DOMAIN policies
        /\ \A r \in DOMAIN policies : r # q => policies'[r] = policies[r]
        /\ DOMAIN policies'[q] = 1..Len(policies[q])+1
        /\ policies'[q][Len(policies[q])+1] = NewVersion(s, d)
    BY <1>2, PublishedVersions
  <2>3. p = q /\ v = Len(policies[q]) + 1
    BY <2>1, <2>2, Below
  <2>4. QED
    BY <2>2, <2>3
<1>3. ASSUME NEW s \in Accounts, NEW q \in DOMAIN policies,
             NEW w \in DOMAIN policies[q], RevokePolicyVersion(s, q, w)
      PROVE  FALSE
  BY <1>3, RevokedVersions
<1>4. (Tick \/ UNCHANGED policyVars) => policies' = policies
  BY DEF Tick, policyVars
<1>5. QED
  BY <1>1, <1>2, <1>3, <1>4 DEF PolicyNext

\* What VersionsOnlyClose says of one version.
Forward(old, new) ==
    /\ old.owner = new.owner /\ old.definition = new.definition
    /\ old.created_at = new.created_at
    /\ old.status # "ACTIVE" => new.status # "ACTIVE"
    /\ old.status = "REVOKED" => new = old

LEMMA VersionsGoForward ==
    ASSUME PolicyTypeOK, [PolicyNext]_policyVars,
           NEW p \in DOMAIN policies, NEW v \in DOMAIN policies[p]
    PROVE  /\ Forward(policies[p][v], policies'[p][v])
           /\ DefinitionHash(p, v) = DefinitionHash(p, v)'
           /\ policies'[p][v].closed_at \in {policies[p][v].closed_at, now}
<1> DEFINE old == policies[p][v]
           new == policies'[p][v]
<1>1. old \in PolicyVersion
  BY VersionsType
<1>2. \/ new = old \/ new = Superseded(old)
      \/ old.status # "REVOKED" /\ new = Revoked(old)
  BY VersionStep
<1> HIDE DEF old, new
<1>3. Forward(old, new) /\ new.closed_at \in {old.closed_at, now}
  BY <1>1, <1>2 DEF Superseded, Revoked, PolicyVersion, Forward
<1>4. QED
  BY <1>3 DEF old, new, DefinitionHash, Forward

\* No version was closed in the future.
ClosedInPast ==
    \A p \in DOMAIN policies : \A v \in DOMAIN policies[p] :
        policies[p][v].closed_at <= now

(* A stored version only ever closes: its terms, its owner and its dates   *)
(* never move back, REVOKED is final.  Every claim is bound to a version   *)
(* for life and every consumer reads its status and definition hash.       *)
THEOREM HistoryGoesForward == PolicySpec => VersionsOnlyClose
<1>1. PolicyInit => ClosedInPast
  BY DEF PolicyInit, ClosedInPast
<1>2. ASSUME PolicyTypeOK, PolicyTypeOK', ClosedInPast, [PolicyNext]_policyVars
      PROVE  ClosedInPast'
  <2>1. now \in Nat /\ now' \in Nat /\ now <= now'
    <3>1. now' = now \/ now' = now + 1
      BY <1>2 DEF PolicyNext, CreatePolicy, PublishPolicyVersion,
                  RevokePolicyVersion, Tick, policyVars
    <3>2. QED
      BY <1>2, <3>1 DEF PolicyTypeOK
  <2>2. ASSUME NEW p \in DOMAIN policies', NEW v \in DOMAIN policies'[p]
        PROVE  policies'[p][v].closed_at <= now'
    <3>1. CASE p \in DOMAIN policies /\ v \in DOMAIN policies[p]
      <4>1. policies[p][v].closed_at <= now /\ policies[p][v].closed_at \in Nat
        BY <1>2, <3>1, VersionsType DEF ClosedInPast, PolicyVersion
      <4>2. policies'[p][v].closed_at \in {policies[p][v].closed_at, now}
        BY <1>2, <3>1, VersionsGoForward
      <4>3. QED
        BY <2>1, <4>1, <4>2
    <3>2. CASE ~ (p \in DOMAIN policies /\ v \in DOMAIN policies[p])
      <4>1. PICK s \in Accounts, d \in Definitions :
               policies'[p][v] = NewVersion(s, d)
        BY <1>2, <2>2, <3>2, AddedVersions
      <4>2. QED
        BY <2>1, <4>1 DEF NewVersion, Never
    <3>3. QED
      BY <3>1, <3>2
  <2>3. QED
    BY <2>2 DEF ClosedInPast
<1>3. ASSUME PolicyTypeOK, ClosedInPast, [PolicyNext]_policyVars,
             NEW p \in DOMAIN policies, NEW v \in DOMAIN policies[p]
      PROVE  LET old == policies[p][v]
                 new == policies'[p][v]
             IN /\ DefinitionHash(p, v) = DefinitionHash(p, v)'
                /\ old.created_at = new.created_at
                /\ old.closed_at <= new.closed_at
                /\ old.status # "ACTIVE" => new.status # "ACTIVE"
                /\ old.status = "REVOKED" => new = old
  <2>1. /\ Forward(policies[p][v], policies'[p][v])
        /\ DefinitionHash(p, v) = DefinitionHash(p, v)'
        /\ policies'[p][v].closed_at \in {policies[p][v].closed_at, now}
    BY <1>3, VersionsGoForward
  <2>2. policies[p][v].closed_at <= now /\ policies[p][v].closed_at \in Nat
    BY <1>3, VersionsType DEF ClosedInPast, PolicyVersion
  <2>3. policies[p][v].closed_at <= policies'[p][v].closed_at
    BY <2>1, <2>2
  <2>4. QED
    BY <2>1, <2>3 DEF Forward
<1>4. PolicyTypeOK /\ ClosedInPast /\ [PolicyNext]_policyVars =>
         \A p \in DOMAIN policies : \A v \in DOMAIN policies[p] :
            LET old == policies[p][v]
                new == policies'[p][v]
            IN /\ DefinitionHash(p, v) = DefinitionHash(p, v)'
               /\ old.created_at = new.created_at
               /\ old.closed_at <= new.closed_at
               /\ old.status # "ACTIVE" => new.status # "ACTIVE"
               /\ old.status = "REVOKED" => new = old
  BY <1>3
<1>5. PolicyTypeOK /\ PolicyTypeOK' /\ ClosedInPast /\ [PolicyNext]_policyVars
         => ClosedInPast'
  BY <1>2
<1>6. QED
  BY <1>1, <1>4, <1>5, PolicyTypeCorrect, PTL DEF PolicySpec, VersionsOnlyClose

-------------------------------------------------------------------------------
(* Lists of commitments.                                                   *)

LEMMA BatchType ==
    ASSUME NEW least \in Nat, NEW batch \in Batches(least)
    PROVE  batch \in Seq(Entry) /\ Len(batch) \in Nat
<1>1. PICK n \in least..MaxEntries : batch \in [1..n -> CallEntries]
  BY DEF Batches
<1>2. n \in Nat
  BY <1>1, LedgerConstants
<1>3. batch \in Seq(Entry)
  BY <1>1, <1>2, LedgerConstants
<1>4. QED
  BY <1>3, LenProperties

LEMMA CommittedType ==
    ASSUME NEW entries \in Seq(Entry), NEW lastSeq \in Nat
    PROVE  LET items == Committed(entries, lastSeq)
           IN /\ items \in Seq(EvidenceItem)
              /\ Len(items) = Len(entries)
              /\ DOMAIN items = 1..Len(entries)
              /\ \A i \in 1..Len(entries) : items[i].committed_seq = lastSeq + i
<1> DEFINE items == Committed(entries, lastSeq)
<1>1. Len(entries) \in Nat
  BY LenProperties
<1>2. \A i \in 1..Len(entries) : entries[i] \in Entry
  BY ElementOfSeq
<1>3. \A i \in 1..Len(entries) :
         [kind |-> entries[i].kind, url |-> entries[i].url,
          sha256 |-> entries[i].sha256, committed_seq |-> lastSeq + i] \in EvidenceItem
  BY <1>1, <1>2 DEF Entry, EvidenceItem
<1>4. items \in [1..Len(entries) -> EvidenceItem]
  BY <1>3 DEF Committed
<1>5. items \in Seq(EvidenceItem) /\ Len(items) = Len(entries)
  BY <1>1, <1>4
<1>6. \A i \in 1..Len(entries) : items[i].committed_seq = lastSeq + i
  BY DEF Committed
<1>7. QED
  BY <1>4, <1>5, <1>6

LEMMA RelocatedType ==
    ASSUME NEW items \in Seq(EvidenceItem), NEW moves \in Moves(items)
    PROVE  LET moved == Relocated(items, moves)
           IN /\ moved \in Seq(EvidenceItem)
              /\ Len(moved) = Len(items)
              /\ \A i \in 1..Len(items) :
                    moved[i].committed_seq = items[i].committed_seq
<1> DEFINE moved == Relocated(items, moves)
<1>1. Len(items) \in Nat /\ DOMAIN items = 1..Len(items)
  BY LenProperties
<1>2. \A i \in 1..Len(items) : items[i] \in EvidenceItem
  BY ElementOfSeq
<1>3. \A i \in DOMAIN moves : moves[i] \in Urls
  BY DEF Moves
<1>4. \A i \in 1..Len(items) :
         /\ moved[i] \in EvidenceItem
         /\ moved[i].committed_seq = items[i].committed_seq
  BY <1>1, <1>2, <1>3 DEF Relocated, EvidenceItem
<1>5. moved \in [1..Len(items) -> EvidenceItem]
  BY <1>1, <1>4 DEF Relocated
<1>6. moved \in Seq(EvidenceItem) /\ Len(moved) = Len(items)
  BY <1>1, <1>5
<1>7. QED
  BY <1>4, <1>6

LEMMA ConcatType ==
    ASSUME NEW s \in Seq(EvidenceItem), NEW t \in Seq(EvidenceItem), NEW st, st = s \o t
    PROVE  /\ st \in Seq(EvidenceItem)
           /\ DOMAIN st = 1..Len(s) + Len(t)
           /\ \A i \in 1..Len(s) : st[i] = s[i]
           /\ \A i \in 1..Len(s) + Len(t) : i > Len(s) =>
                 i - Len(s) \in 1..Len(t) /\ st[i] = t[i - Len(s)]
<1>1. /\ s \o t \in Seq(EvidenceItem)
      /\ Len(s \o t) = Len(s) + Len(t)
      /\ \A i \in 1..Len(s) + Len(t) :
            (s \o t)[i] = IF i <= Len(s) THEN s[i] ELSE t[i - Len(s)]
  BY ConcatProperties
<1>2. Len(s) \in Nat /\ Len(t) \in Nat
  BY LenProperties
<1>3. DOMAIN st = 1..Len(s) + Len(t)
  BY <1>1, LenProperties
<1>4. QED
  BY <1>1, <1>2, <1>3

\* A longer list: the old sequence numbers, then `added` fresh ones.
Continues(longer, old, lastSeq, added) ==
    /\ DOMAIN longer = 1..Len(old) + added
    /\ \A i \in 1..Len(old) : longer[i].committed_seq = old[i].committed_seq
    /\ \A i \in 1..Len(old) + added : i > Len(old) =>
          longer[i].committed_seq = lastSeq + (i - Len(old))

LEMMA AmendedType ==
    ASSUME NEW items \in Seq(EvidenceItem), NEW moves \in Moves(items),
           NEW entries \in Seq(Entry), NEW lastSeq \in Nat,
           NEW amended, amended = Amended(items, moves, entries, lastSeq)
    PROVE  /\ amended \in Seq(EvidenceItem)
           /\ Continues(amended, items, lastSeq, Len(entries))
<1>1. PICK moved \in Seq(EvidenceItem) :
         /\ moved = Relocated(items, moves)
         /\ Len(moved) = Len(items)
         /\ \A i \in 1..Len(items) : moved[i].committed_seq = items[i].committed_seq
  BY RelocatedType
<1>2. PICK added \in Seq(EvidenceItem) :
         /\ added = Committed(entries, lastSeq)
         /\ Len(added) = Len(entries)
         /\ \A i \in 1..Len(entries) : added[i].committed_seq = lastSeq + i
  BY CommittedType
<1>3. amended = moved \o added
  BY <1>1, <1>2 DEF Amended
<1>4. /\ amended \in Seq(EvidenceItem)
      /\ DOMAIN amended = 1..Len(moved) + Len(added)
      /\ \A i \in 1..Len(moved) : amended[i] = moved[i]
      /\ \A i \in 1..Len(moved) + Len(added) : i > Len(moved) =>
            i - Len(moved) \in 1..Len(added) /\ amended[i] = added[i - Len(moved)]
  BY <1>3, ConcatType
<1>5. /\ amended \in Seq(EvidenceItem)
      /\ DOMAIN amended = 1..Len(items) + Len(entries)
      /\ \A i \in 1..Len(items) : amended[i].committed_seq = items[i].committed_seq
      /\ \A i \in 1..Len(items) + Len(entries) : i > Len(items) =>
            amended[i].committed_seq = lastSeq + (i - Len(items))
  <2>1. Len(moved) = Len(items) /\ Len(added) = Len(entries)
    BY <1>1, <1>2
  <2>2. \A i \in 1..Len(items) : amended[i].committed_seq = items[i].committed_seq
    BY <1>1, <1>4, <2>1
  <2>3. ASSUME NEW i \in 1..Len(items) + Len(entries), i > Len(items)
        PROVE  amended[i].committed_seq = lastSeq + (i - Len(items))
    <3>1. /\ i - Len(items) \in 1..Len(entries)
          /\ amended[i] = added[i - Len(items)]
      BY <1>4, <2>1, <2>3
    <3>2. QED
      BY <1>2, <3>1
  <2>4. QED
    BY <1>4, <2>1, <2>2, <2>3
<1>6. QED
  BY <1>5 DEF Continues

-------------------------------------------------------------------------------
(* The registries.                                                         *)

LEMMA RegisteredType ==
    ASSUME TypeOK, NEW items, NEW c \in Nat,
           DOMAIN claims \subseteq 1..c
    PROVE  Registered(evidence_registry, items, c)
              \in [Documents -> {NoClaim} \union DOMAIN claims \union {c}]
BY DEF TypeOK, Registered

\* A nonempty set of indices has a first one.
LEMMA FirstIndex ==
    ASSUME NEW S \in SUBSET Nat, S # {}
    PROVE  First(S) \in S /\ \A i \in S : First(S) <= i
<1> DEFINE R == OpToRel(<, Nat)
<1>1. IsWellFoundedOn(R, Nat)
  BY NatLessThanWellFounded
<1>2. PICK n \in S : \A m \in S : ~ (<<m, n>> \in R)
  BY <1>1, WFMin
<1>3. \A m \in S : ~ (m < n)
  BY <1>2 DEF OpToRel
<1>4. \E i \in S : \A j \in S : i <= j
  BY <1>3
<1>5. QED
  BY <1>4 DEF First

-------------------------------------------------------------------------------
(* Claims.                                                                 *)

LEMMA ClaimType ==
    ASSUME TypeOK, NEW c \in DOMAIN claims
    PROVE  /\ Len(claims) \in Nat
           /\ DOMAIN claims = 1..Len(claims)
           /\ claims[c] \in Claim
           /\ c \in Nat \ {NoClaim}
           /\ claims[c].policy \in DOMAIN policies
           /\ claims[c].version \in DOMAIN policies[claims[c].policy]
<1>1. claims \in Seq(Claim)
  BY DEF TypeOK
<1>2. Len(claims) \in Nat /\ DOMAIN claims = 1..Len(claims)
  BY <1>1, LenProperties
<1>3. claims[c] \in Claim
  BY <1>1, <1>2, ElementOfSeq
<1>4. QED
  BY <1>2, <1>3 DEF TypeOK, NoClaim

LEMMA ClaimVersionType ==
    ASSUME TypeOK, NEW c \in DOMAIN claims
    PROVE  VersionOf(claims[c]).definition.retry_cooldown \in Nat
<1>1. VersionOf(claims[c]) \in PolicyVersion
  BY ClaimType, VersionsType DEF VersionOf, TypeOK
<1>2. VersionOf(claims[c]).definition \in DefinitionFields
  BY <1>1, PolicyConstants DEF PolicyVersion
<1>3. QED
  BY <1>2 DEF DefinitionFields

(* A round adds one receipt to a claim, quoting its evidence.              *)
LEMMA JudgedType ==
    ASSUME TypeOK, NEW c \in DOMAIN claims, NEW verdict \in Verdicts,
           NEW examined \in SUBSET Nat
    PROVE  LET judged == Judged(claims[c], verdict, examined)
           IN /\ judged \in Claim
              /\ judged.policy = claims[c].policy
              /\ judged.version = claims[c].version
              /\ judged.evidence = claims[c].evidence
              /\ judged.receipts = Append(claims[c].receipts,
                       [verdict |-> verdict, created_at |-> now,
                        evidence |-> claims[c].evidence, examined |-> examined])
<1> DEFINE receipt == [verdict |-> verdict, created_at |-> now,
                       evidence |-> claims[c].evidence, examined |-> examined]
           receipts == Append(claims[c].receipts, receipt)
           cooldown == VersionOf(claims[c]).definition.retry_cooldown
<1>1. claims[c] \in Claim /\ now \in Nat /\ cooldown \in Nat
  BY ClaimType, ClaimVersionType DEF TypeOK, PolicyTypeOK
<1>2. receipt \in Receipt
  BY <1>1 DEF Receipt, Claim
<1>3. receipts \in Seq(Receipt)
  <2>1. claims[c].receipts \in Seq(Receipt)
    BY <1>1 DEF Claim
  <2>2. QED
    BY <1>2, <2>1, AppendProperties
<1> HIDE DEF receipt, receipts, cooldown
<1>4. PICK status \in ClaimStatus, resolved_at \in Nat, next_retry_at \in Nat :
         Judged(claims[c], verdict, examined) =
            [claims[c] EXCEPT !.receipts = receipts, !.verdict = verdict,
                              !.status = status, !.resolved_at = resolved_at,
                              !.next_retry_at = next_retry_at]
  <2> DEFINE terminal == verdict \in TerminalVerdicts \/ Len(receipts) >= MAX_ROUNDS
             status == IF terminal THEN "RESOLVED" ELSE "RETRYABLE"
             resolved_at == IF terminal THEN now ELSE claims[c].resolved_at
             next_retry_at == IF terminal THEN claims[c].next_retry_at
                                          ELSE now + cooldown
  <2>1. status \in ClaimStatus
    BY DEF ClaimStatus
  <2>2. resolved_at \in Nat /\ next_retry_at \in Nat
    <3> HIDE DEF terminal
    <3>1. claims[c].resolved_at \in Nat /\ claims[c].next_retry_at \in Nat
      BY <1>1 DEF Claim
    <3>2. QED
      BY <1>1, <3>1
  <2>3. Judged(claims[c], verdict, examined) =
            [claims[c] EXCEPT !.receipts = receipts, !.verdict = verdict,
                              !.status = status, !.resolved_at = resolved_at,
                              !.next_retry_at = next_retry_at]
    BY Zenon DEF Judged, receipts, receipt, cooldown
  <2> HIDE DEF status, resolved_at, next_retry_at
  <2>4. QED
    BY <2>1, <2>2, <2>3
<1>5. /\ Judged(claims[c], verdict, examined) \in Claim
      /\ Judged(claims[c], verdict, examined).policy = claims[c].policy
      /\ Judged(claims[c], verdict, examined).version = claims[c].version
      /\ Judged(claims[c], verdict, examined).evidence = claims[c].evidence
      /\ Judged(claims[c], verdict, examined).receipts = receipts
  <2> DEFINE updated ==
               [claims[c] EXCEPT !.receipts = receipts, !.verdict = verdict,
                                 !.status = status, !.resolved_at = resolved_at,
                                 !.next_retry_at = next_retry_at]
  <2>1. updated \in Claim
    BY <1>1, <1>3 DEF Claim
  <2>2. /\ updated.policy = claims[c].policy
        /\ updated.version = claims[c].version
        /\ updated.evidence = claims[c].evidence
        /\ updated.receipts = receipts
    BY <1>1 DEF Claim
  <2> HIDE DEF updated
  <2>3. Judged(claims[c], verdict, examined) = updated
    BY <1>4 DEF updated
  <2>4. QED
    BY <2>1, <2>2, <2>3
<1>6. QED
  BY <1>5 DEF receipts, receipt

LEMMA RetriedType ==
    ASSUME NEW claim \in Claim, NEW items \in Seq(EvidenceItem)
    PROVE  LET retried == Retried(claim, items)
           IN /\ retried \in Claim
              /\ retried.policy = claim.policy
              /\ retried.version = claim.version
              /\ retried.evidence = items
              /\ retried.receipts = claim.receipts
<1> DEFINE retried == Retried(claim, items)
<1>1. claim.retry_count + 1 \in Nat /\ "PENDING" \in ClaimStatus
  <2>1. claim.retry_count \in Nat
    BY DEF Claim
  <2>2. "PENDING" \in ClaimStatus
    BY DEF ClaimStatus
  <2>3. QED
    BY <2>1, <2>2
<1>2. retried \in Claim
  BY <1>1 DEF Retried, Claim
<1>3. /\ retried.policy = claim.policy
      /\ retried.version = claim.version
      /\ retried.evidence = items
      /\ retried.receipts = claim.receipts
  BY DEF Retried, Claim
<1>4. QED
  BY <1>2, <1>3

LEMMA CancelledType ==
    ASSUME TypeOK, NEW claim \in Claim
    PROVE  LET cancelled == Cancelled(claim)
           IN /\ cancelled \in Claim
              /\ cancelled.policy = claim.policy
              /\ cancelled.version = claim.version
              /\ cancelled.evidence = claim.evidence
              /\ cancelled.receipts = claim.receipts
BY DEF Cancelled, Claim, ClaimStatus, TypeOK, PolicyTypeOK

(* One claim replaced by a claim under the same policy version.            *)
LEMMA ReplacedClaim ==
    ASSUME TypeOK, NEW c \in DOMAIN claims, NEW claim \in Claim,
           claim.policy = claims[c].policy, claim.version = claims[c].version,
           claims' = [claims EXCEPT ![c] = claim], UNCHANGED policyVars
    PROVE  /\ claims' \in Seq(Claim)
           /\ DOMAIN claims' = DOMAIN claims
           /\ claims'[c] = claim
           /\ \A b \in DOMAIN claims : b # c => claims'[b] = claims[b]
           /\ \A b \in DOMAIN claims' :
                 /\ claims'[b].policy \in DOMAIN policies'
                 /\ claims'[b].version \in DOMAIN policies'[claims'[b].policy]
<1>1. c \in 1..Len(claims) /\ claims \in Seq(Claim)
  BY ClaimType DEF TypeOK
<1>2. claims' \in Seq(Claim)
  BY <1>1, ExceptSeq
<1>3. policies' = policies
  BY DEF policyVars
<1>4. QED
  BY <1>1, <1>2, <1>3, ClaimType

Carriers(items, facts, k) == {i \in facts : Key(items[i]) = k}

\* The registry's answer for a key once the facts of a round are recorded.
LEMMA RecordedAs ==
    ASSUME TypeOK, NEW c \in DOMAIN claims, NEW items \in Seq(EvidenceItem),
           NEW facts \in SUBSET DOMAIN items, NEW k \in DocumentKeys
    PROVE  LET old == document_registry[k]
               new == Recorded(document_registry, items, facts, c)[k]
               carriers == Carriers(items, facts, k)
           IN /\ carriers = {} => new = old
              /\ carriers # {} => \E f \in carriers :
                    /\ items[f].committed_seq \in Nat
                    /\ \A i \in carriers : f <= i
                    /\ new = IF old = NoEntry \/ items[f].committed_seq < old.seq
                             THEN [seq |-> items[f].committed_seq, claim |-> c]
                             ELSE old
<1> DEFINE carriers == Carriers(items, facts, k)
<1>1. carriers \in SUBSET DOMAIN items /\ carriers \in SUBSET Nat
  BY LenProperties DEF Carriers
<1>2. ASSUME carriers = {}
      PROVE  Recorded(document_registry, items, facts, c)[k] = document_registry[k]
  BY <1>2 DEF Recorded, Carriers
<1>3. ASSUME carriers # {}
      PROVE  \E f \in carriers :
                /\ items[f].committed_seq \in Nat
                /\ \A i \in carriers : f <= i
                /\ Recorded(document_registry, items, facts, c)[k] =
                     IF \/ document_registry[k] = NoEntry
                        \/ items[f].committed_seq < document_registry[k].seq
                     THEN [seq |-> items[f].committed_seq, claim |-> c]
                     ELSE document_registry[k]
  <2>1. First(carriers) \in carriers /\ \A i \in carriers : First(carriers) <= i
    BY <1>1, <1>3, FirstIndex
  <2>2. items[First(carriers)] \in EvidenceItem
    BY <1>1, <2>1, ElementOfSeq, LenProperties
  <2>3. items[First(carriers)].committed_seq \in Nat
    BY <2>2 DEF EvidenceItem
  <2>4. Recorded(document_registry, items, facts, c)[k] =
           IF \/ document_registry[k] = NoEntry
              \/ items[First(carriers)].committed_seq < document_registry[k].seq
           THEN [seq |-> items[First(carriers)].committed_seq, claim |-> c]
           ELSE document_registry[k]
    BY <1>3 DEF Recorded, Carriers
  <2>5. QED
    BY <2>1, <2>3, <2>4, Zenon
<1>4. QED
  BY <1>2, <1>3

(* A key stays where it is, or goes to a document the round examined, from *)
(* nowhere or from a later commitment.                                     *)
LEMMA RecordedEntry ==
    ASSUME TypeOK, NEW c \in DOMAIN claims, NEW items \in Seq(EvidenceItem),
           NEW facts \in SUBSET DOMAIN items, NEW k \in DocumentKeys
    PROVE  LET old == document_registry[k]
               new == Recorded(document_registry, items, facts, c)[k]
           IN \/ new = old
              \/ /\ old = NoEntry \/ new.seq < old.seq
                 /\ \E f \in facts :
                       new = [seq |-> items[f].committed_seq, claim |-> c]
<1> DEFINE new == Recorded(document_registry, items, facts, c)[k]
<1>1. CASE Carriers(items, facts, k) = {}
  BY <1>1, RecordedAs
<1>2. CASE Carriers(items, facts, k) # {}
  <2>1. PICK f \in Carriers(items, facts, k) :
           new = IF \/ document_registry[k] = NoEntry
                    \/ items[f].committed_seq < document_registry[k].seq
                 THEN [seq |-> items[f].committed_seq, claim |-> c]
                 ELSE document_registry[k]
    BY <1>2, RecordedAs
  <2>2. f \in facts
    BY DEF Carriers
  <2> HIDE DEF new
  <2>3. \/ new = document_registry[k]
        \/ /\ document_registry[k] = NoEntry \/ new.seq < document_registry[k].seq
           /\ new = [seq |-> items[f].committed_seq, claim |-> c]
    BY <2>1
  <2>4. QED
    BY <2>2, <2>3 DEF new
<1>3. QED
  BY <1>1, <1>2

(* Every document a round examined is covered by its key's entry.          *)
LEMMA RecordedCovers ==
    ASSUME TypeOK, NEW c \in DOMAIN claims, NEW items \in Seq(EvidenceItem),
           NEW facts \in SUBSET DOMAIN items, NEW i \in facts,
           Key(items[i]) \in DocumentKeys,
           \A j, l \in DOMAIN items :
              j < l => items[j].committed_seq < items[l].committed_seq
    PROVE  LET new == Recorded(document_registry, items, facts, c)[Key(items[i])]
           IN new # NoEntry /\ new.seq <= items[i].committed_seq
<1> DEFINE k == Key(items[i])
           new == Recorded(document_registry, items, facts, c)[k]
<1>1. i \in Carriers(items, facts, k) /\ Carriers(items, facts, k) # {}
  BY DEF Carriers
<1>2. document_registry[k] \in RegistryEntry
  BY DEF TypeOK
<1>3. DOMAIN items = 1..Len(items) /\ Len(items) \in Nat
  BY LenProperties
<1>4. PICK f \in Carriers(items, facts, k) :
         /\ items[f].committed_seq \in Nat
         /\ \A j \in Carriers(items, facts, k) : f <= j
         /\ new = IF \/ document_registry[k] = NoEntry
                     \/ items[f].committed_seq < document_registry[k].seq
                  THEN [seq |-> items[f].committed_seq, claim |-> c]
                  ELSE document_registry[k]
  BY <1>1, RecordedAs
<1>5. f <= i /\ f \in DOMAIN items /\ i \in DOMAIN items
  BY <1>1, <1>4 DEF Carriers
<1>6. items[i].committed_seq \in Nat
  <2>1. items[i] \in EvidenceItem
    BY <1>3, <1>5, ElementOfSeq
  <2>2. QED
    BY <2>1 DEF EvidenceItem
<1>7. items[f].committed_seq <= items[i].committed_seq
  BY <1>3, <1>4, <1>5, <1>6
<1>8. c # NoClaim
  BY ClaimType
<1> HIDE DEF new, k
<1>9. ASSUME \/ document_registry[k] = NoEntry
             \/ items[f].committed_seq < document_registry[k].seq
      PROVE  new # NoEntry /\ new.seq <= items[i].committed_seq
  BY <1>4, <1>7, <1>8, <1>9 DEF NoEntry
<1>10. ASSUME document_registry[k] # NoEntry,
              ~ (items[f].committed_seq < document_registry[k].seq)
       PROVE  new # NoEntry /\ new.seq <= items[i].committed_seq
  BY <1>2, <1>4, <1>6, <1>7, <1>10 DEF RegistryEntry
<1>11. new # NoEntry /\ new.seq <= items[i].committed_seq
  BY <1>9, <1>10
<1>12. QED
  BY <1>11 DEF new, k

LEMMA RecordedType ==
    ASSUME TypeOK, NEW c \in DOMAIN claims, NEW items \in Seq(EvidenceItem),
           NEW facts \in SUBSET DOMAIN items
    PROVE  Recorded(document_registry, items, facts, c)
              \in [DocumentKeys -> RegistryEntry]
<1>1. ASSUME NEW k \in DocumentKeys
      PROVE  Recorded(document_registry, items, facts, c)[k] \in RegistryEntry
  <2> DEFINE new == Recorded(document_registry, items, facts, c)[k]
  <2>1. document_registry[k] \in RegistryEntry
    BY DEF TypeOK
  <2>2. CASE new = document_registry[k]
    BY <2>1, <2>2
  <2>3. ASSUME NEW f \in facts,
               new = [seq |-> items[f].committed_seq, claim |-> c]
        PROVE  new \in RegistryEntry
    <3>1. items[f] \in EvidenceItem
      BY ElementOfSeq, LenProperties
    <3>2. QED
      BY <2>3, <3>1, ClaimType DEF EvidenceItem, RegistryEntry
  <2>4. \/ new = document_registry[k]
        \/ \E f \in facts : new = [seq |-> items[f].committed_seq, claim |-> c]
    BY RecordedEntry
  <2>5. QED
    BY <2>2, <2>3, <2>4, Zenon
<1>2. QED
  BY <1>1 DEF Recorded

(* What submit_claim stores: one claim bound to the latest version.        *)
LEMMA NewClaimType ==
    ASSUME TypeOK, NEW s \in Accounts, NEW p \in DOMAIN policies,
           NEW r \in References, NEW ok \in AdmissionOutcomes,
           NEW items \in Seq(EvidenceItem)
    PROVE  LET claim == NewClaim(s, p, r, ok, items)
           IN /\ claim \in Claim
              /\ claim.policy = p
              /\ claim.version = PolicyHead(p)
              /\ claim.evidence = items
              /\ claim.receipts = <<>>
              /\ PolicyHead(p) \in DOMAIN policies[p]
<1>1. /\ PolicyHead(p) \in Nat
      /\ PolicyHead(p) \in DOMAIN policies[p]
      /\ policies[p][PolicyHead(p)] \in PolicyVersion
  BY VersionsType DEF TypeOK, PolicyHead, Latest
<1>2. p \in Nat
  BY LenProperties DEF TypeOK, PolicyTypeOK
<1>3. DefinitionHash(p, PolicyHead(p)) \in Nat \X Nat \X Accounts \X Definitions
  BY <1>1, <1>2 DEF DefinitionHash, PolicyVersion
<1>4. ok \in BOOLEAN /\ now \in Nat
  BY LedgerConstants DEF TypeOK, PolicyTypeOK
<1>5. <<>> \in Seq(Receipt) /\ "PENDING" \in ClaimStatus
  BY DEF ClaimStatus
<1>6. NewClaim(s, p, r, ok, items) \in Claim
  BY <1>1, <1>2, <1>3, <1>4, <1>5 DEF NewClaim, Claim, Never
<1>7. QED
  BY <1>1, <1>6 DEF NewClaim

(* submit_claim appends the claim and leaves the others alone.             *)
LEMMA Submitted ==
    ASSUME TypeOK, NEW s \in Accounts, NEW p \in DOMAIN policies,
           NEW r \in References, NEW ok \in AdmissionOutcomes,
           NEW batch \in Batches(1), SubmitClaim(s, p, r, ok, batch)
    PROVE  LET c == Len(claims) + 1
               items == Committed(batch, commitment_count)
           IN /\ claims' \in Seq(Claim)
              /\ DOMAIN claims' = 1..c
              /\ \A b \in DOMAIN claims : claims'[b] = claims[b]
              /\ claims'[c] = NewClaim(s, p, r, ok, items)
              /\ claims'[c].evidence = items
              /\ claims'[c].receipts = <<>>
              /\ \A b \in DOMAIN claims' :
                    /\ claims'[b].policy \in DOMAIN policies'
                    /\ claims'[b].version \in DOMAIN policies'[claims'[b].policy]
<1> DEFINE c == Len(claims) + 1
           items == Committed(batch, commitment_count)
           claim == NewClaim(s, p, r, ok, items)
<1>1. items \in Seq(EvidenceItem)
  BY BatchType, CommittedType DEF TypeOK
<1>2. /\ claim \in Claim /\ claim.policy = p /\ claim.version = PolicyHead(p)
      /\ claim.evidence = items /\ claim.receipts = <<>>
      /\ PolicyHead(p) \in DOMAIN policies[p]
  BY <1>1, NewClaimType
<1>3. claims' = Append(claims, claim) /\ policies' = policies
  BY DEF SubmitClaim, policyVars
<1> HIDE DEF claim
<1>4. /\ claims' \in Seq(Claim)
      /\ Len(claims') = c
      /\ \A b \in 1..Len(claims) : claims'[b] = claims[b]
      /\ claims'[c] = claim
  BY <1>2, <1>3, AppendProperties DEF TypeOK
<1>5. DOMAIN claims' = 1..c /\ DOMAIN claims = 1..Len(claims) /\ Len(claims) \in Nat
  BY <1>4, LenProperties DEF TypeOK
<1>6. ASSUME NEW b \in DOMAIN claims'
      PROVE  /\ claims'[b].policy \in DOMAIN policies'
             /\ claims'[b].version \in DOMAIN policies'[claims'[b].policy]
  <2>1. CASE b = c
    BY <1>2, <1>3, <1>4, <2>1
  <2>2. CASE b \in DOMAIN claims
    BY <1>3, <1>4, <1>5, <2>2 DEF TypeOK
  <2>3. QED
    BY <1>5, <2>1, <2>2
<1>7. QED
  BY <1>2, <1>4, <1>5, <1>6 DEF claim

(* A round of resolve_claim: one receipt, and the registry's new entries.  *)
LEMMA Adjudicated ==
    ASSUME TypeOK, NEW c \in DOMAIN claims, AdjudicateRound(c)
    PROVE  \E examined \in SUBSET DOMAIN claims[c].evidence, verdict \in Verdicts :
              /\ claims' = [claims EXCEPT ![c] = Judged(claims[c], verdict, examined)]
              /\ document_registry' =
                    Recorded(document_registry, claims[c].evidence,
                             Facts(claims[c].evidence, examined), c)
              /\ UNCHANGED <<policyVars, evidence_registry, commitment_count>>
<1> DEFINE items == claims[c].evidence
           readable == {i \in DOMAIN items : Readable(items[i])}
<1>1. PICK examined \in SUBSET readable :
         \E base \in RoundVerdicts(DOMAIN items, readable, examined) :
            LET verdict == IF RegistryHit(c, items, examined)
                           THEN "SUSPICIOUS" ELSE base
            IN /\ claims' = [claims EXCEPT ![c] = Judged(claims[c], verdict, examined)]
               /\ document_registry' =
                     Recorded(document_registry, items, Facts(items, examined), c)
  BY DEF AdjudicateRound
<1>2. PICK base \in RoundVerdicts(DOMAIN items, readable, examined) :
         LET verdict == IF RegistryHit(c, items, examined) THEN "SUSPICIOUS" ELSE base
         IN /\ claims' = [claims EXCEPT ![c] = Judged(claims[c], verdict, examined)]
            /\ document_registry' =
                  Recorded(document_registry, items, Facts(items, examined), c)
  BY <1>1
<1>3. base \in Verdicts /\ "SUSPICIOUS" \in Verdicts
  BY DEF RoundVerdicts, Verdicts
<1>4. UNCHANGED <<policyVars, evidence_registry, commitment_count>>
  BY DEF AdjudicateRound
<1>5. examined \in SUBSET DOMAIN items
  OBVIOUS
<1>6. QED
  BY <1>2, <1>3, <1>4, <1>5

(* A retry replaces the claim by one whose evidence list is amended.       *)
LEMMA RetriedClaim ==
    ASSUME TypeOK, NEW s \in Accounts, NEW c \in DOMAIN claims,
           NEW moves \in Moves(claims[c].evidence), NEW batch \in Batches(0),
           RetryClaim(s, c, moves, batch)
    PROVE  LET items == Amended(claims[c].evidence, moves, batch, commitment_count)
           IN /\ items \in Seq(EvidenceItem)
              /\ Retried(claims[c], items) \in Claim
              /\ Retried(claims[c], items).policy = claims[c].policy
              /\ Retried(claims[c], items).version = claims[c].version
              /\ Retried(claims[c], items).evidence = items
              /\ Retried(claims[c], items).receipts = claims[c].receipts
              /\ claims' = [claims EXCEPT ![c] = Retried(claims[c], items)]
<1> DEFINE items == Amended(claims[c].evidence, moves, batch, commitment_count)
<1>1. claims[c] \in Claim
  BY ClaimType
<1>2. claims[c].evidence \in Seq(EvidenceItem)
  BY <1>1 DEF Claim
<1>3. items \in Seq(EvidenceItem)
  BY <1>2, BatchType, AmendedType DEF TypeOK
<1>4. claims' = [claims EXCEPT ![c] = Retried(claims[c], items)]
  BY DEF RetryClaim
<1> HIDE DEF items
<1>5. QED
  BY <1>1, <1>3, <1>4, RetriedType DEF items

LEMMA TypeStep ==
    ASSUME TypeOK, [Next]_vars
    PROVE  TypeOK'
<1>1. /\ evidence_registry \in [Documents -> {NoClaim} \union DOMAIN claims]
      /\ document_registry \in [DocumentKeys -> RegistryEntry]
      /\ commitment_count \in Nat /\ PolicyTypeOK
      /\ claims \in Seq(Claim) /\ DOMAIN claims = 1..Len(claims) /\ Len(claims) \in Nat
  BY LenProperties DEF TypeOK
<1>2. ASSUME [PolicyNext]_policyVars, UNCHANGED ledgerVars PROVE TypeOK'
  <2>1. PolicyTypeOK'
    BY <1>1, <1>2, PolicyStepType
  <2>2. ASSUME NEW c \in DOMAIN claims'
        PROVE  /\ claims'[c].policy \in DOMAIN policies'
               /\ claims'[c].version \in DOMAIN policies'[claims'[c].policy]
    <3>1. claims' = claims
      BY <1>2 DEF ledgerVars
    <3>2. QED
      BY <1>1, <1>2, <3>1, VersionsPersist DEF TypeOK
  <2>3. QED
    BY <1>1, <1>2, <2>1, <2>2 DEF TypeOK, ledgerVars
<1>3. ASSUME NEW s \in Accounts, NEW p \in DOMAIN policies, NEW r \in References,
             NEW ok \in AdmissionOutcomes, NEW batch \in Batches(1),
             SubmitClaim(s, p, r, ok, batch)
      PROVE  TypeOK'
  <2>1. /\ claims' \in Seq(Claim) /\ DOMAIN claims' = 1..Len(claims)+1
        /\ \A b \in DOMAIN claims' :
              /\ claims'[b].policy \in DOMAIN policies'
              /\ claims'[b].version \in DOMAIN policies'[claims'[b].policy]
    BY <1>3, Submitted
  <2>2. evidence_registry' \in [Documents -> {NoClaim} \union DOMAIN claims']
    <3>1. evidence_registry'
             \in [Documents -> {NoClaim} \union DOMAIN claims \union {Len(claims)+1}]
      BY <1>1, <1>3, RegisteredType DEF SubmitClaim
    <3>2. {NoClaim} \union DOMAIN claims \union {Len(claims)+1}
             = {NoClaim} \union DOMAIN claims'
      BY <1>1, <2>1
    <3>3. QED
      BY <3>1, <3>2
  <2>3. commitment_count' \in Nat
    BY <1>1, <1>3, BatchType DEF SubmitClaim
  <2>4. PolicyTypeOK' /\ document_registry' = document_registry
    BY <1>1, <1>3 DEF SubmitClaim, policyVars, PolicyTypeOK
  <2>5. QED
    BY <1>1, <2>1, <2>2, <2>3, <2>4 DEF TypeOK
<1>4. ASSUME NEW c \in DOMAIN claims, NEW claim \in Claim,
             claim.policy = claims[c].policy, claim.version = claims[c].version,
             claims' = [claims EXCEPT ![c] = claim], UNCHANGED policyVars,
             evidence_registry' \in [Documents -> {NoClaim} \union DOMAIN claims],
             document_registry' \in [DocumentKeys -> RegistryEntry],
             commitment_count' \in Nat
      PROVE  TypeOK'
  <2>1. /\ claims' \in Seq(Claim) /\ DOMAIN claims' = DOMAIN claims
        /\ \A b \in DOMAIN claims' :
              /\ claims'[b].policy \in DOMAIN policies'
              /\ claims'[b].version \in DOMAIN policies'[claims'[b].policy]
    BY <1>4, ReplacedClaim
  <2>2. PolicyTypeOK'
    BY <1>1, <1>4 DEF policyVars, PolicyTypeOK
  <2>3. QED
    BY <1>4, <2>1, <2>2 DEF TypeOK
<1>5. ASSUME NEW c \in DOMAIN claims, RejectAtAdmission(c) PROVE TypeOK'
  <2>1. /\ claims' = [claims EXCEPT ![c] = Judged(claims[c], "REJECTED", {})]
        /\ UNCHANGED <<policyVars, evidence_registry, document_registry, commitment_count>>
    BY <1>5 DEF RejectAtAdmission
  <2>2. "REJECTED" \in Verdicts /\ {} \in SUBSET Nat
    BY DEF Verdicts
  <2>3. QED
    BY <1>1, <1>4, <2>1, <2>2, JudgedType
<1>6. ASSUME NEW c \in DOMAIN claims, AdjudicateRound(c) PROVE TypeOK'
  <2> DEFINE items == claims[c].evidence
  <2>1. PICK examined \in SUBSET DOMAIN items, verdict \in Verdicts :
           /\ claims' = [claims EXCEPT ![c] = Judged(claims[c], verdict, examined)]
           /\ document_registry' =
                 Recorded(document_registry, items, Facts(items, examined), c)
           /\ UNCHANGED <<policyVars, evidence_registry, commitment_count>>
    BY <1>6, Adjudicated
  <2>2. items \in Seq(EvidenceItem)
    BY ClaimType DEF Claim
  <2>3. examined \in SUBSET Nat /\ Facts(items, examined) \in SUBSET DOMAIN items
    BY <2>2, LenProperties DEF Facts
  <2>4. document_registry' \in [DocumentKeys -> RegistryEntry]
    BY <2>1, <2>2, <2>3, RecordedType
  <2>5. QED
    BY <1>1, <1>4, <2>1, <2>3, <2>4, JudgedType
<1>7. ASSUME NEW s \in Accounts, NEW c \in DOMAIN claims,
             NEW moves \in Moves(claims[c].evidence), NEW batch \in Batches(0),
             RetryClaim(s, c, moves, batch)
      PROVE  TypeOK'
  <2> DEFINE items == Amended(claims[c].evidence, moves, batch, commitment_count)
             n == Len(claims)
  <2>1. /\ Retried(claims[c], items) \in Claim
        /\ Retried(claims[c], items).policy = claims[c].policy
        /\ Retried(claims[c], items).version = claims[c].version
        /\ claims' = [claims EXCEPT ![c] = Retried(claims[c], items)]
    BY <1>7, RetriedClaim
  <2>2. /\ evidence_registry' = Registered(evidence_registry, items, c)
        /\ commitment_count' = commitment_count + Len(batch)
        /\ UNCHANGED <<policyVars, document_registry>>
    BY <1>7 DEF RetryClaim
  <2> HIDE DEF items
  <2>3. evidence_registry' \in [Documents -> {NoClaim} \union DOMAIN claims]
    BY <1>1, <2>2 DEF Registered
  <2>4. commitment_count' \in Nat
    BY <1>1, <2>2, BatchType
  <2>5. QED
    BY <1>1, <1>4, <2>1, <2>2, <2>3, <2>4
<1>8. ASSUME NEW s \in Accounts, NEW c \in DOMAIN claims, CancelClaim(s, c)
      PROVE  TypeOK'
  <2>1. /\ claims' = [claims EXCEPT ![c] = Cancelled(claims[c])]
        /\ UNCHANGED <<policyVars, evidence_registry, document_registry, commitment_count>>
    BY <1>8 DEF CancelClaim
  <2>2. /\ Cancelled(claims[c]) \in Claim
        /\ Cancelled(claims[c]).policy = claims[c].policy
        /\ Cancelled(claims[c]).version = claims[c].version
    BY ClaimType, CancelledType
  <2>3. QED
    BY <1>1, <1>4, <2>1, <2>2
<1>9. UNCHANGED vars => UNCHANGED policyVars /\ UNCHANGED ledgerVars
  BY DEF vars
<1>10. QED
  BY <1>2, <1>3, <1>5, <1>6, <1>7, <1>8, <1>9 DEF Next, ClaimNext, ResolveClaim

(* The ledger's state keeps its type: in particular every claim names a    *)
(* stored policy version and every registered document an existing claim,  *)
(* so no view or transaction dereferences an id that is not there.         *)
THEOREM TypeCorrect == Spec => []TypeOK
<1>1. Init => TypeOK
  BY DEF Init, PolicyInit, LedgerInit, TypeOK, PolicyTypeOK, Never,
         RegistryEntry, NoEntry, NoClaim
<1>2. TypeOK /\ [Next]_vars => TypeOK'
  BY TypeStep
<1>3. QED
  BY <1>1, <1>2, PTL DEF Spec

-------------------------------------------------------------------------------
(* No two claims are consumable together on one document.                  *)

LEMMA ItemType ==
    ASSUME NEW items \in Seq(EvidenceItem)
    PROVE  /\ DOMAIN items = 1..Len(items) /\ Len(items) \in Nat
           /\ \A i \in DOMAIN items :
                 /\ items[i].committed_seq \in Nat
                 /\ items[i].kind \in StructuredKinds => Key(items[i]) \in DocumentKeys
<1>1. DOMAIN items = 1..Len(items) /\ Len(items) \in Nat
  BY LenProperties
<1>2. ASSUME NEW i \in DOMAIN items
      PROVE  /\ items[i].committed_seq \in Nat
             /\ items[i].kind \in StructuredKinds => Key(items[i]) \in DocumentKeys
  <2>1. items[i] \in EvidenceItem
    BY <1>1, ElementOfSeq
  <2>2. items[i].committed_seq \in Nat /\ items[i].sha256 \in Documents
    BY <2>1 DEF EvidenceItem
  <2>3. Content[items[i].sha256].number \in Numbers
    BY <2>2, LedgerConstants
  <2>4. QED
    BY <2>2, <2>3 DEF Key, DocumentKeys
<1>3. QED
  BY <1>1, <1>2

LEMMA EvidenceType ==
    ASSUME TypeOK, NEW c \in DOMAIN claims
    PROVE  claims[c].evidence \in Seq(EvidenceItem)
BY ClaimType DEF Claim

LEMMA ReceiptType ==
    ASSUME TypeOK, NEW c \in DOMAIN claims, NEW n \in DOMAIN claims[c].receipts
    PROVE  /\ claims[c].receipts[n].evidence \in Seq(EvidenceItem)
           /\ claims[c].receipts[n].examined \in SUBSET Nat
<1>1. claims[c].receipts \in Seq(Receipt)
  BY ClaimType DEF Claim
<1>2. claims[c].receipts[n] \in Receipt
  BY <1>1, ElementOfSeq, LenProperties
<1>3. QED
  BY <1>2 DEF Receipt

(* Steps that touch neither evidence nor receipts nor the registry.        *)
LEMMA SupportUntouched ==
    ASSUME RegistrySupport,
           DOMAIN claims' = DOMAIN claims,
           \A c \in DOMAIN claims : /\ claims'[c].evidence = claims[c].evidence
                                    /\ claims'[c].receipts = claims[c].receipts,
           UNCHANGED <<document_registry, commitment_count>>
    PROVE  RegistrySupport'
<1>1. SequencesGrow'
  BY DEF RegistrySupport, SequencesGrow
<1>2. SequencesAreOwned'
  BY DEF RegistrySupport, SequencesAreOwned
<1>3. ReceiptsQuote'
  BY DEF RegistrySupport, ReceiptsQuote
<1>4. EntriesAreHeld'
  BY DEF RegistrySupport, EntriesAreHeld
<1>5. EntriesCover'
  BY DEF RegistrySupport, EntriesCover
<1>6. QED
  BY <1>1, <1>2, <1>3, <1>4, <1>5 DEF RegistrySupport

(* Steps that commit documents to one claim, c: what its list holds was    *)
(* there before or has a fresh sequence number, so numbers stay owned.     *)
LEMMA SupportOfCommitment ==
    ASSUME TypeOK, TypeOK', RegistrySupport, NEW c \in DOMAIN claims',
           DOMAIN claims' = DOMAIN claims \union {c},
           commitment_count <= commitment_count',
           \A b \in DOMAIN claims : b # c => claims'[b] = claims[b],
           \A b \in DOMAIN claims : claims'[b].receipts = claims[b].receipts,
           c \notin DOMAIN claims => claims'[c].receipts = <<>>,
           c \in DOMAIN claims => \A i \in DOMAIN claims[c].evidence :
              /\ i \in DOMAIN claims'[c].evidence
              /\ claims'[c].evidence[i].committed_seq = claims[c].evidence[i].committed_seq,
           \A i \in DOMAIN claims'[c].evidence :
              \/ c \in DOMAIN claims /\ i \in DOMAIN claims[c].evidence
              \/ claims'[c].evidence[i].committed_seq
                    \in commitment_count+1..commitment_count',
           \A i, j \in DOMAIN claims'[c].evidence : i < j =>
              claims'[c].evidence[i].committed_seq < claims'[c].evidence[j].committed_seq,
           UNCHANGED document_registry
    PROVE  RegistrySupport'
<1>1. commitment_count \in Nat /\ commitment_count' \in Nat
  BY DEF TypeOK
<1>2. ASSUME NEW b \in DOMAIN claims', NEW i \in DOMAIN claims'[b].evidence
      PROVE  \/ /\ b \in DOMAIN claims /\ i \in DOMAIN claims[b].evidence
                /\ claims'[b].evidence[i].committed_seq = claims[b].evidence[i].committed_seq
                /\ claims[b].evidence[i].committed_seq \in 1..commitment_count
             \/ /\ b = c
                /\ claims'[b].evidence[i].committed_seq
                      \in commitment_count+1..commitment_count'
  BY <1>2 DEF RegistrySupport, SequencesGrow
<1>3. SequencesGrow'
  <2>1. ASSUME NEW b \in DOMAIN claims', NEW i \in DOMAIN claims'[b].evidence
        PROVE  claims'[b].evidence[i].committed_seq \in 1..commitment_count'
    BY <1>1, <1>2
  <2>2. ASSUME NEW b \in DOMAIN claims', NEW i \in DOMAIN claims'[b].evidence,
               NEW j \in DOMAIN claims'[b].evidence, i < j
        PROVE  claims'[b].evidence[i].committed_seq < claims'[b].evidence[j].committed_seq
    BY <2>2 DEF RegistrySupport, SequencesGrow
  <2>3. QED
    BY <2>1, <2>2 DEF SequencesGrow
<1>4. SequencesAreOwned'
  <2>1. ASSUME NEW b \in DOMAIN claims', NEW d \in DOMAIN claims',
               NEW i \in DOMAIN claims'[b].evidence, NEW j \in DOMAIN claims'[d].evidence,
               claims'[b].evidence[i].committed_seq = claims'[d].evidence[j].committed_seq
        PROVE  b = d
    <3>1. CASE /\ b \in DOMAIN claims /\ i \in DOMAIN claims[b].evidence
               /\ d \in DOMAIN claims /\ j \in DOMAIN claims[d].evidence
      BY <1>2, <2>1, <3>1 DEF RegistrySupport, SequencesAreOwned
    <3>2. QED
      BY <1>1, <1>2, <2>1, <3>1
  <2>2. QED
    BY <2>1 DEF SequencesAreOwned
<1>5. ReceiptsQuote'
  <2>1. ASSUME NEW b \in DOMAIN claims', NEW n \in DOMAIN claims'[b].receipts,
               NEW i \in claims'[b].receipts[n].examined
        PROVE  /\ i \in DOMAIN claims'[b].receipts[n].evidence
               /\ i \in DOMAIN claims'[b].evidence
               /\ claims'[b].receipts[n].evidence[i].committed_seq
                     = claims'[b].evidence[i].committed_seq
    <3>1. b \in DOMAIN claims /\ claims'[b].receipts = claims[b].receipts
      BY EmptySeq
    <3>2. /\ i \in DOMAIN claims[b].receipts[n].evidence
          /\ i \in DOMAIN claims[b].evidence
          /\ claims[b].receipts[n].evidence[i].committed_seq
                = claims[b].evidence[i].committed_seq
      BY <2>1, <3>1 DEF RegistrySupport, ReceiptsQuote
    <3>3. QED
      BY <3>1, <3>2
  <2>2. QED
    BY <2>1 DEF ReceiptsQuote
<1>6. EntriesAreHeld'
  BY DEF RegistrySupport, EntriesAreHeld
<1>7. EntriesCover'
  <2>1. ASSUME NEW b \in DOMAIN claims', NEW n \in DOMAIN claims'[b].receipts
        PROVE  b \in DOMAIN claims /\ claims'[b].receipts = claims[b].receipts
    BY EmptySeq
  <2>2. QED
    BY <2>1 DEF RegistrySupport, EntriesCover
<1>8. QED
  BY <1>3, <1>4, <1>5, <1>6, <1>7 DEF RegistrySupport

(* The claims after a round of claim c: one more receipt of c, quoting its *)
(* evidence, and everything else as it was.                                *)
LEMMA JudgedClaims ==
    ASSUME TypeOK, NEW c \in DOMAIN claims, NEW verdict \in Verdicts,
           NEW examined \in SUBSET Nat, UNCHANGED policyVars,
           claims' = [claims EXCEPT ![c] = Judged(claims[c], verdict, examined)]
    PROVE  /\ DOMAIN claims' = DOMAIN claims
           /\ \A b \in DOMAIN claims : claims'[b].evidence = claims[b].evidence
           /\ \A b \in DOMAIN claims : b # c => claims'[b].receipts = claims[b].receipts
           /\ claims'[c].receipts # <<>>
           /\ \A n \in DOMAIN claims'[c].receipts :
                 \/ /\ n \in DOMAIN claims[c].receipts
                    /\ claims'[c].receipts[n] = claims[c].receipts[n]
                 \/ /\ claims'[c].receipts[n].evidence = claims[c].evidence
                    /\ claims'[c].receipts[n].examined = examined
<1> DEFINE receipt == [verdict |-> verdict, created_at |-> now,
                       evidence |-> claims[c].evidence, examined |-> examined]
           old == claims[c].receipts
           judged == Judged(claims[c], verdict, examined)
<1>1. /\ judged \in Claim
      /\ judged.policy = claims[c].policy /\ judged.version = claims[c].version
      /\ judged.evidence = claims[c].evidence
      /\ judged.receipts = Append(old, receipt)
  BY JudgedType
<1> HIDE DEF judged
<1>2. /\ DOMAIN claims' = DOMAIN claims
      /\ claims'[c] = judged
      /\ \A b \in DOMAIN claims : b # c => claims'[b] = claims[b]
  BY <1>1, ReplacedClaim DEF judged
<1>3. old \in Seq(Receipt) /\ now \in Nat /\ claims[c].evidence \in Seq(EvidenceItem)
  BY ClaimType DEF Claim, TypeOK, PolicyTypeOK
<1>4. receipt \in Receipt
  BY <1>3 DEF Receipt
<1>5. /\ receipt.evidence = claims[c].evidence
      /\ receipt.examined = examined
  OBVIOUS
<1> HIDE DEF receipt
<1>6. /\ Append(old, receipt) # <<>>
      /\ Append(old, receipt) \in Seq(Receipt)
      /\ Len(Append(old, receipt)) = Len(old) + 1
      /\ \A n \in 1..Len(old) : Append(old, receipt)[n] = old[n]
      /\ Append(old, receipt)[Len(old)+1] = receipt
  BY <1>3, <1>4, AppendProperties
<1>7. /\ DOMAIN Append(old, receipt) = 1..Len(old)+1
      /\ DOMAIN old = 1..Len(old) /\ Len(old) \in Nat
  BY <1>3, <1>6, LenProperties
<1>8. ASSUME NEW n \in DOMAIN claims'[c].receipts
      PROVE  \/ /\ n \in DOMAIN old
                /\ claims'[c].receipts[n] = old[n]
             \/ /\ claims'[c].receipts[n].evidence = claims[c].evidence
                /\ claims'[c].receipts[n].examined = examined
  <2>1. claims'[c].receipts = Append(old, receipt)
    BY <1>1, <1>2
  <2>2. n \in 1..Len(old) \/ n = Len(old) + 1
    BY <1>7, <2>1
  <2>3. QED
    BY <1>5, <1>6, <1>7, <2>1, <2>2
<1>9. QED
  BY <1>1, <1>2, <1>6, <1>8

(* A round of claim c, whatever it examined, keeps the support: the entry  *)
(* of a key only moves to an earlier commitment, and to a judged claim.    *)
LEMMA SupportOfRound ==
    ASSUME TypeOK, RegistrySupport, NEW c \in DOMAIN claims, NEW verdict \in Verdicts,
           NEW examined \in SUBSET DOMAIN claims[c].evidence,
           claims' = [claims EXCEPT ![c] = Judged(claims[c], verdict, examined)],
           document_registry' =
              Recorded(document_registry, claims[c].evidence,
                       Facts(claims[c].evidence, examined), c),
           UNCHANGED <<policyVars, evidence_registry, commitment_count>>
    PROVE  RegistrySupport'
<1> DEFINE items == claims[c].evidence
           facts == Facts(items, examined)
<1>1. /\ items \in Seq(EvidenceItem)
      /\ facts \in SUBSET DOMAIN items
      /\ examined \in SUBSET Nat
      /\ UNCHANGED policyVars
      /\ document_registry' = Recorded(document_registry, items, facts, c)
  BY EvidenceType, ItemType DEF Facts
<1>2. /\ DOMAIN claims' = DOMAIN claims
      /\ \A b \in DOMAIN claims : claims'[b].evidence = claims[b].evidence
      /\ \A b \in DOMAIN claims : b # c => claims'[b].receipts = claims[b].receipts
      /\ claims'[c].receipts # <<>>
      /\ \A n \in DOMAIN claims'[c].receipts :
            \/ /\ n \in DOMAIN claims[c].receipts
               /\ claims'[c].receipts[n] = claims[c].receipts[n]
            \/ /\ claims'[c].receipts[n].evidence = items
               /\ claims'[c].receipts[n].examined = examined
  <2>1. examined \in SUBSET Nat /\ UNCHANGED policyVars
    BY <1>1
  <2>2. claims' = [claims EXCEPT ![c] = Judged(claims[c], verdict, examined)]
    OBVIOUS
  <2> HIDE DEF facts
  <2>3. QED
    BY <2>1, <2>2, JudgedClaims
<1>3. ASSUME NEW k \in DocumentKeys
      PROVE  \/ document_registry'[k] = document_registry[k]
             \/ /\ \/ document_registry[k] = NoEntry
                   \/ document_registry'[k].seq < document_registry[k].seq
                /\ document_registry'[k].claim = c
                /\ \E f \in DOMAIN items :
                      document_registry'[k].seq = items[f].committed_seq
  <2>1. \/ document_registry'[k] = document_registry[k]
        \/ /\ \/ document_registry[k] = NoEntry
              \/ document_registry'[k].seq < document_registry[k].seq
           /\ \E f \in facts :
                 document_registry'[k] = [seq |-> items[f].committed_seq, claim |-> c]
    <3> HIDE DEF items, facts
    <3>1. QED
      BY <1>1, RecordedEntry
  <2>2. CASE document_registry'[k] = document_registry[k]
    BY <2>2
  <2>3. ASSUME NEW f \in facts,
               \/ document_registry[k] = NoEntry
               \/ document_registry'[k].seq < document_registry[k].seq,
               document_registry'[k] = [seq |-> items[f].committed_seq, claim |-> c]
        PROVE  /\ document_registry'[k].claim = c
               /\ \E g \in DOMAIN items :
                     document_registry'[k].seq = items[g].committed_seq
    <3> HIDE DEF items, facts
    <3>1. QED
      BY <1>1, <2>3
  <2>4. QED
    BY <2>1, <2>2, <2>3
<1> HIDE DEF facts
<1>4. SequencesGrow'
  BY <1>2 DEF RegistrySupport, SequencesGrow
<1>5. SequencesAreOwned'
  BY <1>2 DEF RegistrySupport, SequencesAreOwned
<1>6. ReceiptsQuote'
  <2>1. ASSUME NEW b \in DOMAIN claims', NEW n \in DOMAIN claims'[b].receipts,
               NEW i \in claims'[b].receipts[n].examined
        PROVE  /\ i \in DOMAIN claims'[b].receipts[n].evidence
               /\ i \in DOMAIN claims'[b].evidence
               /\ claims'[b].receipts[n].evidence[i].committed_seq
                     = claims'[b].evidence[i].committed_seq
    <3>1. CASE /\ n \in DOMAIN claims[b].receipts
               /\ claims'[b].receipts[n] = claims[b].receipts[n]
      BY <1>2, <2>1, <3>1 DEF RegistrySupport, ReceiptsQuote
    <3>2. CASE /\ b = c
               /\ claims'[c].receipts[n].evidence = items
               /\ claims'[c].receipts[n].examined = examined
      BY <1>2, <2>1, <3>2
    <3>3. QED
      BY <1>2, <3>1, <3>2
  <2>2. QED
    BY <2>1 DEF ReceiptsQuote
<1>7. EntriesAreHeld'
  <2>1. ASSUME NEW k \in DocumentKeys, document_registry'[k] # NoEntry
        PROVE  /\ document_registry'[k].claim \in DOMAIN claims'
               /\ claims'[document_registry'[k].claim].receipts # <<>>
               /\ \E i \in DOMAIN claims'[document_registry'[k].claim].evidence :
                     claims'[document_registry'[k].claim].evidence[i].committed_seq
                        = document_registry'[k].seq
    <3>1. CASE document_registry'[k] = document_registry[k]
      BY <1>2, <2>1, <3>1 DEF RegistrySupport, EntriesAreHeld
    <3>2. CASE /\ document_registry'[k].claim = c
               /\ \E f \in DOMAIN items :
                     document_registry'[k].seq = items[f].committed_seq
      BY <1>2, <3>2
    <3>3. QED
      BY <1>3, <3>1, <3>2
  <2>2. QED
    BY <2>1 DEF EntriesAreHeld
<1>8. EntriesCover'
  <2>1. ASSUME NEW b \in DOMAIN claims, NEW n \in DOMAIN claims[b].receipts
        PROVE  Covers(document_registry', claims[b].receipts[n])
    <3> DEFINE receipt == claims[b].receipts[n]
    <3>1. ASSUME NEW i \in Facts(receipt.evidence, receipt.examined)
          PROVE  LET entry == document_registry'[Key(receipt.evidence[i])]
                 IN entry # NoEntry /\ entry.seq <= receipt.evidence[i].committed_seq
      <4> DEFINE k == Key(receipt.evidence[i])
      <4>1. /\ document_registry[k] # NoEntry
            /\ document_registry[k].seq <= receipt.evidence[i].committed_seq
        BY DEF RegistrySupport, EntriesCover, Covers
      <4>2. i \in receipt.examined /\ receipt.evidence[i].kind \in StructuredKinds
        BY DEF Facts
      <4>3. i \in DOMAIN receipt.evidence /\ receipt.evidence \in Seq(EvidenceItem)
        BY <4>2, ReceiptType DEF RegistrySupport, ReceiptsQuote
      <4>4. k \in DocumentKeys /\ receipt.evidence[i].committed_seq \in Nat
        BY <4>2, <4>3, ItemType
      <4>5. /\ document_registry[k].seq \in Nat
            /\ document_registry'[k].seq \in Nat \/ document_registry'[k] = document_registry[k]
        <5>1. document_registry[k] \in RegistryEntry
          BY <4>4 DEF TypeOK
        <5>2. \A f \in DOMAIN items : items[f].committed_seq \in Nat
          BY <1>1, ItemType
        <5>3. QED
          BY <1>3, <4>4, <5>1, <5>2 DEF RegistryEntry
      <4>6. c # NoClaim
        BY ClaimType
      <4> HIDE DEF k, receipt
      <4>7. CASE document_registry'[k] = document_registry[k]
        BY <4>1, <4>7 DEF k
      <4>8. CASE /\ document_registry'[k].seq < document_registry[k].seq
                 /\ document_registry'[k].claim = c
        BY <4>1, <4>4, <4>5, <4>6, <4>8 DEF k, NoEntry
      <4>9. QED
        BY <1>3, <4>1, <4>4, <4>7, <4>8
    <3>2. QED
      BY <3>1 DEF Covers
  <2>2. ASSUME NEW receipt, receipt.evidence = items, receipt.examined = examined
        PROVE  Covers(document_registry', receipt)
    <3>1. ASSUME NEW i \in facts
          PROVE  LET entry == document_registry'[Key(items[i])]
                 IN entry # NoEntry /\ entry.seq <= items[i].committed_seq
      <4>1. Key(items[i]) \in DocumentKeys
        BY <1>1, ItemType DEF facts, Facts
      <4>2. \A j, l \in DOMAIN items :
               j < l => items[j].committed_seq < items[l].committed_seq
        BY DEF RegistrySupport, SequencesGrow
      <4>3. QED
        BY <1>1, <4>1, <4>2, RecordedCovers DEF facts
    <3>2. QED
      BY <2>2, <3>1 DEF Covers, facts
  <2>3. ASSUME NEW b \in DOMAIN claims', NEW n \in DOMAIN claims'[b].receipts
        PROVE  Covers(document_registry', claims'[b].receipts[n])
    <3>1. CASE n \in DOMAIN claims[b].receipts /\ claims'[b].receipts[n] = claims[b].receipts[n]
      BY <1>2, <2>1, <3>1
    <3>2. CASE /\ claims'[b].receipts[n].evidence = items
               /\ claims'[b].receipts[n].examined = examined
      BY <2>2, <3>2
    <3>3. QED
      BY <1>2, <3>1, <3>2
  <2>4. QED
    BY <2>3 DEF EntriesCover
<1>9. QED
  BY <1>4, <1>5, <1>6, <1>7, <1>8 DEF RegistrySupport

LEMMA SupportOfSubmission ==
    ASSUME TypeOK, TypeOK', RegistrySupport, NEW s \in Accounts,
           NEW p \in DOMAIN policies, NEW r \in References,
           NEW ok \in AdmissionOutcomes, NEW batch \in Batches(1),
           SubmitClaim(s, p, r, ok, batch)
    PROVE  RegistrySupport'
<1> DEFINE c == Len(claims) + 1
           items == Committed(batch, commitment_count)
<1>1. /\ DOMAIN claims' = 1..c
      /\ \A b \in DOMAIN claims : claims'[b] = claims[b]
      /\ claims'[c].evidence = items
      /\ claims'[c].receipts = <<>>
  BY Submitted
<1>2. DOMAIN claims = 1..Len(claims) /\ Len(claims) \in Nat /\ commitment_count \in Nat
  BY LenProperties DEF TypeOK
<1>3. batch \in Seq(Entry) /\ Len(batch) \in Nat
  BY BatchType
<1>4. /\ DOMAIN items = 1..Len(batch)
      /\ \A i \in 1..Len(batch) : items[i].committed_seq = commitment_count + i
  BY <1>2, <1>3, CommittedType
<1>5. /\ commitment_count' = commitment_count + Len(batch)
      /\ UNCHANGED document_registry
  BY DEF SubmitClaim
<1> HIDE DEF items
<1>6. /\ c \in DOMAIN claims' /\ c \notin DOMAIN claims
      /\ DOMAIN claims' = DOMAIN claims \union {c}
      /\ commitment_count <= commitment_count'
  BY <1>1, <1>2, <1>3, <1>5
<1>7. \A i \in DOMAIN claims'[c].evidence :
         claims'[c].evidence[i].committed_seq \in commitment_count+1..commitment_count'
  BY <1>1, <1>2, <1>3, <1>4, <1>5
<1>8. \A i, j \in DOMAIN claims'[c].evidence : i < j =>
         claims'[c].evidence[i].committed_seq < claims'[c].evidence[j].committed_seq
  BY <1>1, <1>2, <1>3, <1>4
<1> HIDE DEF c
<1>9. QED
  BY <1>1, <1>5, <1>6, <1>7, <1>8, SupportOfCommitment

(* An amended list holds the committed documents where they were, and      *)
(* fresh sequence numbers after them.                                      *)
LEMMA AmendedSequences ==
    ASSUME NEW old \in Seq(EvidenceItem), NEW moves \in Moves(old),
           NEW batch \in Seq(Entry), NEW count \in Nat,
           \A i \in DOMAIN old : old[i].committed_seq \in 1..count,
           \A i, j \in DOMAIN old :
              i < j => old[i].committed_seq < old[j].committed_seq,
           NEW items, items = Amended(old, moves, batch, count)
    PROVE  /\ \A i \in DOMAIN old :
                 /\ i \in DOMAIN items
                 /\ items[i].committed_seq = old[i].committed_seq
           /\ \A i \in DOMAIN items :
                 \/ i \in DOMAIN old
                 \/ items[i].committed_seq \in count+1..count+Len(batch)
           /\ \A i, j \in DOMAIN items :
                 i < j => items[i].committed_seq < items[j].committed_seq
<1>1. Len(batch) \in Nat /\ Len(old) \in Nat /\ DOMAIN old = 1..Len(old)
  BY LenProperties
<1>2. /\ DOMAIN items = 1..Len(old) + Len(batch)
      /\ \A i \in 1..Len(old) : items[i].committed_seq = old[i].committed_seq
      /\ \A i \in 1..Len(old) + Len(batch) : i > Len(old) =>
            items[i].committed_seq = count + (i - Len(old))
  <2>1. Continues(items, old, count, Len(batch))
    BY AmendedType
  <2>2. QED
    BY <2>1 DEF Continues
<1>3. \A i \in DOMAIN old :
         i \in DOMAIN items /\ items[i].committed_seq = old[i].committed_seq
  BY <1>1, <1>2
<1>4. ASSUME NEW i \in DOMAIN items, i \notin DOMAIN old
      PROVE  /\ items[i].committed_seq = count + (i - Len(old))
             /\ i - Len(old) \in 1..Len(batch)
  <2>1. i \in 1..Len(old) + Len(batch) /\ i > Len(old)
    BY <1>1, <1>2, <1>4
  <2>2. QED
    BY <1>1, <1>2, <2>1
<1>5. \A i \in DOMAIN items :
         i \in DOMAIN old \/ items[i].committed_seq \in count+1..count+Len(batch)
  BY <1>1, <1>4
<1>6. ASSUME NEW i \in DOMAIN items, NEW j \in DOMAIN items, i < j
      PROVE  items[i].committed_seq < items[j].committed_seq
  <2>1. CASE j \in DOMAIN old
    <3>1. i \in DOMAIN old
      BY <1>1, <1>2, <1>6, <2>1
    <3>2. QED
      BY <1>3, <1>6, <2>1, <3>1
  <2>2. CASE i \in DOMAIN old /\ j \notin DOMAIN old
    <3>1. items[i].committed_seq \in 1..count
      BY <1>3, <2>2
    <3>2. /\ items[j].committed_seq = count + (j - Len(old))
          /\ j - Len(old) \in 1..Len(batch)
      BY <1>4, <2>2
    <3>3. QED
      BY <1>1, <3>1, <3>2
  <2>3. CASE i \notin DOMAIN old /\ j \notin DOMAIN old
    <3>1. /\ items[i].committed_seq = count + (i - Len(old))
          /\ items[j].committed_seq = count + (j - Len(old))
      BY <1>4, <2>3
    <3>2. i \in Nat /\ j \in Nat
      BY <1>1, <1>2
    <3>3. QED
      BY <1>1, <1>6, <3>1, <3>2
  <2>4. QED
    BY <2>1, <2>2, <2>3
<1>7. QED
  BY <1>3, <1>5, <1>6

LEMMA SupportOfRetry ==
    ASSUME TypeOK, TypeOK', RegistrySupport, NEW s \in Accounts, NEW c \in DOMAIN claims,
           NEW moves \in Moves(claims[c].evidence), NEW batch \in Batches(0),
           RetryClaim(s, c, moves, batch)
    PROVE  RegistrySupport'
<1>1. PICK old \in Seq(EvidenceItem) : old = claims[c].evidence
  BY EvidenceType
<1>2. PICK items : items = Amended(old, moves, batch, commitment_count)
  OBVIOUS
<1>3. PICK retried \in Claim :
         /\ retried.policy = claims[c].policy /\ retried.version = claims[c].version
         /\ retried.evidence = items /\ retried.receipts = claims[c].receipts
         /\ claims' = [claims EXCEPT ![c] = retried]
  BY <1>1, <1>2, RetriedClaim
<1>4. /\ UNCHANGED policyVars /\ UNCHANGED document_registry
      /\ commitment_count' = commitment_count + Len(batch)
  BY DEF RetryClaim
<1>5. /\ commitment_count \in Nat /\ batch \in Seq(Entry) /\ Len(batch) \in Nat
      /\ moves \in Moves(old)
  BY <1>1, BatchType DEF TypeOK
<1>6. /\ \A i \in DOMAIN old : old[i].committed_seq \in 1..commitment_count
      /\ \A i, j \in DOMAIN old : i < j => old[i].committed_seq < old[j].committed_seq
  BY <1>1 DEF RegistrySupport, SequencesGrow
<1>7. /\ \A i \in DOMAIN old :
            i \in DOMAIN items /\ items[i].committed_seq = old[i].committed_seq
      /\ \A i \in DOMAIN items :
            \/ i \in DOMAIN old
            \/ items[i].committed_seq
                  \in commitment_count+1..commitment_count+Len(batch)
      /\ \A i, j \in DOMAIN items :
            i < j => items[i].committed_seq < items[j].committed_seq
  BY <1>2, <1>5, <1>6, AmendedSequences
<1>8. /\ DOMAIN claims' = DOMAIN claims \union {c} /\ c \in DOMAIN claims'
      /\ claims'[c].evidence = items
      /\ \A b \in DOMAIN claims : claims'[b].receipts = claims[b].receipts
      /\ \A b \in DOMAIN claims : b # c => claims'[b] = claims[b]
  BY <1>3, <1>4, ReplacedClaim
<1>9. commitment_count <= commitment_count'
  BY <1>4, <1>5
<1>10. QED
  BY <1>1, <1>4, <1>7, <1>8, <1>9, SupportOfCommitment

LEMMA SupportStep ==
    ASSUME TypeOK, TypeOK', RegistrySupport, [Next]_vars
    PROVE  RegistrySupport'
<1>1. ASSUME UNCHANGED ledgerVars PROVE RegistrySupport'
  BY <1>1, SupportUntouched DEF ledgerVars
<1>2. ASSUME NEW c \in DOMAIN claims, RejectAtAdmission(c) PROVE RegistrySupport'
  <2> DEFINE items == claims[c].evidence
  <2>1. /\ claims' = [claims EXCEPT ![c] = Judged(claims[c], "REJECTED", {})]
        /\ UNCHANGED <<policyVars, evidence_registry, document_registry, commitment_count>>
    BY <1>2 DEF RejectAtAdmission
  <2>2. "REJECTED" \in Verdicts /\ {} \in SUBSET DOMAIN items
    BY DEF Verdicts
  <2>3. Recorded(document_registry, items, Facts(items, {}), c) = document_registry
    BY DEF TypeOK, Recorded, Facts
  <2>4. QED
    BY <2>1, <2>2, <2>3, SupportOfRound
<1>3. ASSUME NEW c \in DOMAIN claims, AdjudicateRound(c) PROVE RegistrySupport'
  BY <1>3, Adjudicated, SupportOfRound
<1>4. ASSUME NEW s \in Accounts, NEW c \in DOMAIN claims, CancelClaim(s, c)
      PROVE  RegistrySupport'
  <2> DEFINE cancelled == Cancelled(claims[c])
  <2>1. /\ claims' = [claims EXCEPT ![c] = cancelled]
        /\ UNCHANGED <<policyVars, document_registry, commitment_count>>
    BY <1>4 DEF CancelClaim
  <2>2. /\ cancelled \in Claim
        /\ cancelled.policy = claims[c].policy /\ cancelled.version = claims[c].version
        /\ cancelled.evidence = claims[c].evidence
        /\ cancelled.receipts = claims[c].receipts
    BY ClaimType, CancelledType
  <2> HIDE DEF cancelled
  <2>3. /\ DOMAIN claims' = DOMAIN claims
        /\ claims'[c] = cancelled
        /\ \A b \in DOMAIN claims : b # c => claims'[b] = claims[b]
    BY <2>1, <2>2, ReplacedClaim
  <2>4. \A b \in DOMAIN claims : /\ claims'[b].evidence = claims[b].evidence
                                 /\ claims'[b].receipts = claims[b].receipts
    BY <2>2, <2>3
  <2>5. QED
    BY <2>1, <2>3, <2>4, SupportUntouched
<1>5. UNCHANGED vars => UNCHANGED ledgerVars
  BY DEF vars
<1>6. QED
  BY <1>1, <1>2, <1>3, <1>4, <1>5, SupportOfSubmission, SupportOfRetry
     DEF Next, ClaimNext, ResolveClaim

(* The heart of the argument: a consumable claim holds the registry entry  *)
(* of every document key its last receipt carries.  Were the entry of some *)
(* key another claim's, that claim would have been judged, so it could not *)
(* count as withdrawn unjudged, and its commitment, being another's, would *)
(* be strictly earlier: the claim would be a later duplicate.              *)
LEMMA ConsumableHoldsEntry ==
    ASSUME TypeOK, RegistrySupport, NEW c \in DOMAIN claims, NEW at,
           Consumable(c, at), NEW k \in CarriedKeys(claims[c])
    PROVE  document_registry[k].claim = c
<1> DEFINE receipt == LastReceipt(claims[c])
           n == Len(claims[c].receipts)
<1>1. claims[c].receipts # <<>> /\ ~LaterDuplicate(c)
  BY DEF Consumable, Freshness
<1>2. n \in DOMAIN claims[c].receipts /\ receipt = claims[c].receipts[n]
  <2>1. claims[c].receipts \in Seq(Receipt)
    BY ClaimType DEF Claim
  <2>2. QED
    BY <1>1, <2>1, EmptySeq, LenProperties DEF LastReceipt
<1>3. PICK i \in Facts(receipt.evidence, receipt.examined) : Key(receipt.evidence[i]) = k
  BY DEF CarriedKeys
<1> DEFINE entry == document_registry[k]
           item == receipt.evidence[i]
<1>4. ~DuplicateDocument(item, c)
  BY <1>1 DEF LaterDuplicate
<1>5. i \in receipt.examined /\ item.kind \in StructuredKinds
  BY DEF Facts
<1>6. /\ i \in DOMAIN receipt.evidence
      /\ i \in DOMAIN claims[c].evidence
      /\ item.committed_seq = claims[c].evidence[i].committed_seq
  BY <1>2, <1>5 DEF RegistrySupport, ReceiptsQuote
<1>7. receipt.evidence \in Seq(EvidenceItem)
  BY <1>2, ReceiptType
<1>8. k \in DocumentKeys /\ item.committed_seq \in Nat
  BY <1>3, <1>5, <1>6, <1>7, ItemType
<1>9. entry # NoEntry /\ entry.seq <= item.committed_seq
  BY <1>2, <1>3 DEF RegistrySupport, EntriesCover, Covers
<1>10. PICK j \in DOMAIN claims[entry.claim].evidence :
          /\ entry.claim \in DOMAIN claims
          /\ claims[entry.claim].receipts # <<>>
          /\ claims[entry.claim].evidence[j].committed_seq = entry.seq
  BY <1>8, <1>9 DEF RegistrySupport, EntriesAreHeld
<1>11. entry \in RegistryEntry
  BY <1>8 DEF TypeOK
<1>12. SUFFICES ASSUME entry.claim # c PROVE FALSE
  OBVIOUS
<1>13. RegistryConflict(entry.claim, c)
  <2>1. Len(claims[entry.claim].receipts) # 0
    <3>1. claims[entry.claim].receipts \in Seq(Receipt)
      BY <1>10, ClaimType DEF Claim
    <3>2. QED
      BY <1>10, <3>1, EmptySeq
  <2>2. entry.claim # NoClaim
    BY <1>10, ClaimType
  <2>3. QED
    BY <1>12, <2>1, <2>2 DEF RegistryConflict, WithdrawnUnjudged
<1>14. ~ (entry.seq < item.committed_seq)
  BY <1>3, <1>4, <1>9, <1>13 DEF DuplicateDocument
<1>15. entry.seq = item.committed_seq
  BY <1>8, <1>9, <1>11, <1>14 DEF RegistryEntry
<1>16. entry.claim = c
  BY <1>6, <1>10, <1>15 DEF RegistrySupport, SequencesAreOwned
<1>17. QED
  BY <1>12, <1>16

LEMMA SupportSuffices ==
    ASSUME TypeOK, RegistrySupport
    PROVE  OneConsumablePerDocument
BY ConsumableHoldsEntry DEF OneConsumablePerDocument

(* Commitment numbers are unique and grow, receipts quote documents their  *)
(* claim holds, and every registry entry is held by a judged claim and is  *)
(* no later than any examination of its key.                               *)
THEOREM RegistrySupported == Spec => []RegistrySupport
<1>1. Init => RegistrySupport
  BY DEF Init, LedgerInit, RegistrySupport, SequencesGrow, SequencesAreOwned,
         ReceiptsQuote, EntriesAreHeld, EntriesCover
<1>2. RegistrySupport /\ TypeOK /\ TypeOK' /\ [Next]_vars => RegistrySupport'
  BY SupportStep
<1>3. QED
  BY <1>1, <1>2, TypeCorrect, PTL DEF Spec

(* Two claims are never consumable at once on the strength of one issuer   *)
(* and document number, in whatever order claims that carry it are         *)
(* submitted, judged, retried and cancelled, by whomever, however often.   *)
THEOREM NoSharedDocument == Spec => []OneConsumablePerDocument
<1>1. TypeOK /\ RegistrySupport => OneConsumablePerDocument
  BY SupportSuffices
<1>2. QED
  BY <1>1, TypeCorrect, RegistrySupported, PTL
===============================================================================
