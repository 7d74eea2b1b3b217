---------------------------- MODULE SuitesProofs ----------------------------
(***************************************************************************)
(* Proofs about the upgrade of suites, for any suites, authorities, owners,  *)
(* versions and releases.                                                   *)
(*                                                                         *)
(* The argument is that a release is never replaced once an authority has    *)
(* it, that every release anywhere was published by some reference, and       *)
(* that whatever a proxy or the factory points to is complete.               *)
(***************************************************************************)
EXTENDS Suites, TLAPS

Types ==
  /\ releases \in [Authorities -> [Versions -> Releases \cup {None}]]
  /\ current \in [Authorities -> Versions \cup {None}]
  /\ iaOwner \in [Authorities -> Accounts \cup {None}]
  /\ linked \subseteq Authorities /\ iaFactories \subseteq Authorities
  /\ factoryIA \in Authorities
  /\ deployed \subseteq Suites /\ mixed \subseteq Suites
  /\ authority \in [Contracts -> Authorities \cup {None}]
  /\ owner \in [Contracts -> Accounts \cup {Factory, None}]
  /\ uses \in [Parts -> [Suites -> Suites \cup {None}]]

Deployments ==
  /\ \A c \in Contracts : owner[c] # None => Exists(c)
  /\ \A s \in Suites : /\ Exists(<<"irs", s>>) => s \in deployed
                       /\ \A c \in Own(s) : Exists(c) <=> s \in deployed

(* What has not been made has no version.                                   *)
Unmade ==
  \A ia \in Authorities : ~Made(ia) =>
    current[ia] = None /\ \A v \in Versions : releases[ia][v] = None

Published ==
  \A ia \in Authorities, v \in Versions : releases[ia][v] # None =>
    \E r \in References : releases[r][v] = releases[ia][v]

CompleteOnes ==
  /\ Complete(factoryIA)
  /\ \A c \in Contracts : Exists(c) => Complete(authority[c])

(* The parts that a suite has of its own.                                   *)
OwnParts == Parts \ {"irs"}

(* A suite that is not mixed points to itself, and no other one points to it. *)
Unmixed ==
  \A s \in Suites \ mixed, kind \in OwnParts :
    /\ s \in deployed => uses[kind][s] = s
    /\ \A t \in Suites : t # s => uses[kind][t] # s

Together ==
  \A s \in deployed \ mixed : \E ia \in Authorities : \A c \in Own(s) : authority[c] = ia

(* The inductive invariant.                                                *)
SInv == Types /\ Deployments /\ Unmade /\ Published /\ CompleteOnes /\ Unmixed /\ Together

(* No release is replaced.                                                  *)
ReleasesKept ==
  \A ia \in Authorities, v \in Versions :
    releases[ia][v] # None => releases'[ia][v] = releases[ia][v]

-----------------------------------------------------------------------------
LEMMA OwnContracts ==
  ASSUME NEW s \in Suites
  PROVE  /\ Own(s) \subseteq Contracts
         /\ \A t \in Suites : <<"irs", t>> \in Contracts /\ <<"irs", t>> \notin Own(s)
         /\ \A t \in Suites : t # s => Own(s) \cap Own(t) = {}
BY DEF Own, OwnKinds, Kinds, Contracts

LEMMA PartsOf ==
  /\ OwnParts = {"ir", "mc", "ctr", "tir"}
  /\ OwnParts \subseteq Parts /\ "irs" \in Parts /\ "irs" \notin OwnParts
BY DEF OwnParts, Parts, Kinds

LEMMA NoneIsNothing ==
  /\ None \notin Accounts /\ None # Factory /\ None \notin Authorities
  /\ None \notin Suites /\ None \notin Versions /\ None \notin Releases
  /\ Factory \notin Accounts
  /\ References \subseteq Authorities /\ Auxiliaries \subseteq Authorities
  /\ Main \in References /\ First \in Versions /\ Platform \in Accounts
BY SuitesAssumption DEF Authorities

(* Complete authorities stay complete while their version stays.            *)
LEMMA StaysComplete ==
  ASSUME Types, ReleasesKept, NEW ia \in Authorities, Complete(ia), current'[ia] = current[ia]
  PROVE  Complete(ia)' /\ releases'[ia][current'[ia]] = releases[ia][current[ia]]
<1>1. current[ia] \in Versions
  BY DEF Types, Complete
<1> QED BY <1>1 DEF ReleasesKept, Complete

-----------------------------------------------------------------------------
(* The proxies of a suite go over to another authority.                     *)

(* A suite that is not mixed leads to its own contracts.                    *)
LEMMA LeadsHome ==
  ASSUME Types, Unmixed, NEW s \in Suites, s \in deployed, s \notin mixed
  PROVE  Leads(s) = Own(s)
<1>1. uses["ir"][s] = s /\ uses["mc"][s] = s /\ uses["ctr"][s] = s /\ uses["tir"][s] = s
  BY PartsOf DEF Unmixed
<1> QED BY <1>1 DEF Leads, Registry, Own, OwnKinds, Kinds

(* No other suite leads to it.                                              *)
LEMMA LeadsAway ==
  ASSUME Types, Unmixed, NEW s \in Suites, Registry(s) \in Suites,
         NEW t \in Suites \ mixed, t # s, NEW c \in Own(t)
  PROVE  c \notin Leads(s) /\ c # Storage(s)
<1>1. PICK kind \in OwnKinds : c = <<kind, t>>
  BY DEF Own
<1>2. uses["ir"][s] # t /\ uses["mc"][s] # t
  BY PartsOf DEF Unmixed
<1>3. uses["ctr"][Registry(s)] # t /\ uses["tir"][Registry(s)] # t
  BY <1>2, PartsOf DEF Unmixed, Registry
<1>4. kind # "irs"
  BY DEF OwnKinds
<1> QED BY <1>1, <1>2, <1>3, <1>4 DEF Leads, Registry, Storage

LEMMA SuiteMoves ==
  ASSUME Types, Deployments, Unmixed, Together, NEW s \in Suites, NEW caller \in Accounts,
         NEW ia \in Authorities, NEW new \in Authorities,
         MayChange(caller, s, ia), authority' = Moved(s, ia, new),
         UNCHANGED <<deployed, owner, uses, mixed>>
  PROVE  /\ authority' \in [Contracts -> Authorities \cup {None}]
         /\ \A c \in Contracts : \/ authority'[c] = authority[c]
                                 \/ authority[c] = ia /\ authority'[c] = new
         /\ \A c \in Contracts : Exists(c)' <=> Exists(c)
         /\ Deployments' /\ Unmixed' /\ Together'
<1>1. \A c \in Contracts : authority'[c] =
        IF c \in Leads(s) \/ (c = Storage(s) /\ authority[c] = ia) THEN new ELSE authority[c]
  BY DEF Moved
<1>2. /\ \A c \in Leads(s) : authority[c] = ia
      /\ Registry(s) \in Suites /\ s \in deployed
  BY DEF MayChange
<1>3. authority' \in [Contracts -> Authorities \cup {None}]
  BY DEF Moved, Types
<1>4. \A c \in Contracts : authority'[c] = authority[c] \/ (authority[c] = ia /\ authority'[c] = new)
  BY <1>1, <1>2
<1>5. \A c \in Contracts : Exists(c)' <=> Exists(c)
  BY <1>4, NoneIsNothing DEF Exists
<1>6. Deployments' /\ Unmixed'
  <2>1. \A c \in Contracts : (owner[c] # None => Exists(c))'
    BY <1>5 DEF Deployments
  <2>2. ASSUME NEW t \in Suites
        PROVE  (/\ Exists(<<"irs", t>>) => t \in deployed
                /\ \A c \in Own(t) : Exists(c) <=> t \in deployed)'
    BY <1>5, OwnContracts DEF Deployments
  <2>3. Unmixed'
    BY DEF Unmixed
  <2> QED BY <2>1, <2>2, <2>3 DEF Deployments
<1>7. Together'
  <2> SUFFICES ASSUME NEW t \in deployed \ mixed
               PROVE  \E a \in Authorities : \A c \in Own(t) : authority'[c] = a
    BY DEF Together
  <2>0. t \in Suites \ mixed
    BY DEF Types
  <2>1. CASE t = s
    <3>1. \A c \in Own(t) : c \in Contracts /\ c \in Leads(s)
      BY <2>0, <2>1, LeadsHome, OwnContracts
    <3> QED BY <1>1, <3>1
  <2>2. CASE t # s
    <3>1. \A c \in Own(t) : c \in Contracts /\ c \notin Leads(s) /\ c # Storage(s)
      BY <1>2, <2>0, <2>2, LeadsAway, OwnContracts
    <3> QED BY <1>1, <3>1 DEF Together
  <2> QED BY <2>1, <2>2
<1> QED BY <1>3, <1>4, <1>5, <1>6, <1>7

-----------------------------------------------------------------------------
(* Steps of the authorities, which leave the suites alone.                  *)

LEMMA AuthoritiesMove ==
  ASSUME SInv, UNCHANGED suiteVars, Types', Unmade', Published',
         \A ia \in Authorities : Complete(ia) => Complete(ia)',
         Complete(factoryIA)'
  PROVE  SInv'
<1>1. Deployments' /\ Unmixed' /\ Together'
  BY DEF SInv, suiteVars, Deployments, Unmixed, Together, Exists
<1>2. ASSUME NEW c \in Contracts, Exists(c)'
      PROVE  Complete(authority[c])'
  <2>1. Exists(c) /\ authority[c] \in Authorities
    BY <1>2 DEF suiteVars, Exists, SInv, Types
  <2>2. Complete(authority[c])
    BY <2>1 DEF SInv, CompleteOnes
  <2>3. PICK ia \in Authorities : ia = authority[c]
    BY <2>1
  <2>4. Complete(ia)'
    BY <2>2, <2>3
  <2>5. authority'[c] = ia
    BY <2>3 DEF suiteVars
  <2> QED BY <2>4, <2>5 DEF Complete
<1>3. CompleteOnes'
  BY <1>2 DEF CompleteOnes
<1> QED BY <1>1, <1>3 DEF SInv

LEMMA AddKeeps ==
  ASSUME SInv, NEW r \in References, NEW v \in Versions, NEW release \in Releases,
         AddTREXVersion(r, v, release)
  PROVE  SInv' /\ ReleasesKept
<1> USE DEF AddTREXVersion
<1>0. r \in Authorities /\ None \notin Releases
  BY NoneIsNothing
<1>1. Types'
  BY <1>0 DEF SInv, Types, suiteVars
<1>2. \A ia \in Authorities, w \in Versions :
        releases'[ia][w] = IF ia = r /\ w = v THEN release ELSE releases[ia][w]
  BY <1>0 DEF SInv, Types
<1>3. ReleasesKept
  BY <1>2 DEF ReleasesKept
<1>4. Unmade'
  BY <1>2 DEF SInv, Made, Unmade
<1>5. Published'
  <2> SUFFICES ASSUME NEW ia \in Authorities, NEW w \in Versions, releases'[ia][w] # None
               PROVE  \E q \in References : releases'[q][w] = releases'[ia][w]
    BY DEF Published
  <2>1. CASE ia = r
    BY <2>1
  <2>2. CASE ia # r
    <3>1. PICK q \in References : releases[q][w] = releases[ia][w]
      BY <1>2, <2>2 DEF SInv, Published
    <3>2. releases[q][w] # None
      BY <1>2, <2>2, <3>1
    <3>3. releases'[q][w] = releases[q][w]
      BY <1>3, <3>2, NoneIsNothing DEF ReleasesKept
    <3> QED BY <1>2, <2>2, <3>1, <3>3
  <2> QED BY <2>1, <2>2
<1>6. \A ia \in Authorities : Complete(ia) => Complete(ia)'
  BY <1>3, StaysComplete DEF SInv
<1>7. Complete(factoryIA)'
  BY <1>6 DEF SInv, CompleteOnes, Types, Complete
<1>8. UNCHANGED suiteVars
  OBVIOUS
<1> QED BY <1>1, <1>3, <1>4, <1>5, <1>6, <1>7, <1>8, AuthoritiesMove

LEMMA UseKeeps ==
  ASSUME SInv, NEW ia \in Authorities, NEW v \in Versions, UseTREXVersion(ia, v)
  PROVE  SInv' /\ ReleasesKept
<1> USE DEF UseTREXVersion
<1>1. Types'
  BY DEF SInv, Types, suiteVars
<1>2. ReleasesKept
  BY DEF ReleasesKept
<1>3. Unmade' /\ Published'
  BY DEF SInv, Made, Types, Unmade, Published
<1>4. ASSUME NEW a \in Authorities, Complete(a)
      PROVE  Complete(a)'
  <2>1. CASE a = ia
    BY <2>1, NoneIsNothing DEF Complete, SInv, Types
  <2>2. CASE a # ia
    BY <1>4, <2>2 DEF Complete, SInv, Types
  <2> QED BY <2>1, <2>2
<1>5. Complete(factoryIA)'
  BY <1>4 DEF SInv, CompleteOnes, Types, Complete
<1>6. UNCHANGED suiteVars
  OBVIOUS
<1> QED BY <1>1, <1>2, <1>3, <1>4, <1>5, <1>6, AuthoritiesMove

LEMMA FetchKeeps ==
  ASSUME SInv, NEW aux \in Auxiliaries, NEW v \in Versions, FetchVersion(aux, v)
  PROVE  SInv' /\ ReleasesKept
<1> USE DEF FetchVersion
<1>0. aux \in Authorities /\ factoryIA \in Authorities
  BY NoneIsNothing DEF SInv, Types
<1>1. Types'
  BY <1>0 DEF SInv, Types, suiteVars
<1>2. \A a \in Authorities, w \in Versions :
        releases'[a][w] = IF a = aux /\ w = v THEN releases[factoryIA][v] ELSE releases[a][w]
  BY <1>0 DEF SInv, Types
<1>3. ReleasesKept
  BY <1>2 DEF ReleasesKept
<1>4. Unmade'
  BY <1>2 DEF SInv, Made, Unmade
<1>5. Published'
  <2> SUFFICES ASSUME NEW a \in Authorities, NEW w \in Versions, releases'[a][w] # None
               PROVE  \E q \in References : releases'[q][w] = releases'[a][w]
    BY DEF Published
  <2>1. PICK b \in Authorities : releases[b][w] = releases'[a][w]
    BY <1>0, <1>2
  <2>2. PICK q \in References : releases[q][w] = releases[b][w]
    BY <2>1 DEF SInv, Published
  <2>3. releases'[q][w] = releases[q][w]
    BY <1>3, <2>1, <2>2, NoneIsNothing DEF ReleasesKept
  <2> QED BY <2>1, <2>2, <2>3
<1>6. \A a \in Authorities : Complete(a) => Complete(a)'
  BY <1>3, StaysComplete DEF SInv
<1>7. Complete(factoryIA)'
  BY <1>6 DEF SInv, CompleteOnes, Types, Complete
<1>8. UNCHANGED suiteVars
  OBVIOUS
<1> QED BY <1>1, <1>3, <1>4, <1>5, <1>6, <1>7, <1>8, AuthoritiesMove

LEMMA LinkKeeps ==
  ASSUME SInv, NEW r \in References, SetTREXFactory(r) \/ SetIAFactory(r)
  PROVE  SInv' /\ ReleasesKept
<1> USE DEF SetTREXFactory, SetIAFactory
<1>1. Types'
  BY NoneIsNothing DEF SInv, Types, suiteVars
<1>2. ReleasesKept
  BY DEF ReleasesKept
<1>3. Unmade' /\ Published'
  BY DEF SInv, Made, Unmade, Published
<1>4. \A a \in Authorities : Complete(a) => Complete(a)'
  BY DEF Complete
<1>5. Complete(factoryIA)'
  BY DEF SInv, CompleteOnes, Complete
<1>6. UNCHANGED suiteVars
  OBVIOUS
<1> QED BY <1>1, <1>2, <1>3, <1>4, <1>5, <1>6, AuthoritiesMove

LEMMA SetAuthorityKeeps ==
  ASSUME SInv, NEW ia \in Authorities, SetImplementationAuthority(ia)
  PROVE  SInv' /\ ReleasesKept
<1> USE DEF SetImplementationAuthority, authorityVars
<1>1. Types'
  BY DEF SInv, Types, suiteVars
<1>2. ReleasesKept
  BY DEF ReleasesKept
<1>3. Unmade' /\ Published'
  BY DEF SInv, Made, Unmade, Published
<1>4. \A a \in Authorities : Complete(a) => Complete(a)'
  BY DEF Complete
<1>5. Complete(factoryIA)'
  BY DEF Complete
<1>6. UNCHANGED suiteVars
  OBVIOUS
<1> QED BY <1>1, <1>2, <1>3, <1>4, <1>5, <1>6, AuthoritiesMove

LEMMA AuthorityOwnerKeeps ==
  ASSUME SInv, NEW ia \in Authorities, NEW to \in Accounts,
         TransferAuthority(ia, to) \/ RenounceAuthority(ia)
  PROVE  SInv' /\ ReleasesKept
<1> USE DEF TransferAuthority, RenounceAuthority
<1>1. Types'
  BY DEF SInv, Types, suiteVars
<1>2. ReleasesKept
  BY DEF ReleasesKept
<1>3. Unmade' /\ Published'
  BY DEF SInv, Made, Unmade, Published
<1>4. \A a \in Authorities : Complete(a) => Complete(a)'
  BY DEF Complete
<1>5. Complete(factoryIA)'
  BY DEF SInv, CompleteOnes, Complete
<1>6. UNCHANGED suiteVars
  OBVIOUS
<1> QED BY <1>1, <1>2, <1>3, <1>4, <1>5, <1>6, AuthoritiesMove

-----------------------------------------------------------------------------
(* Steps of the suites.                                                    *)

(* Contracts that go over go to a complete authority.                       *)
LEMMA SuitesMoveOver ==
  ASSUME SInv, Types', Deployments', Unmixed', Together', Unmade', Published',
         \A ia \in Authorities : Complete(ia) => Complete(ia)',
         factoryIA' = factoryIA,
         \A c \in Contracts : authority'[c] # authority[c] /\ authority'[c] # None => Complete(authority[c])'
  PROVE  SInv'
<1>1. ASSUME NEW c \in Contracts, Exists(c)'
      PROVE  Complete(authority[c])'
  <2>1. CASE authority'[c] # authority[c]
    BY <1>1, <2>1 DEF Exists
  <2>2. CASE authority'[c] = authority[c]
    <3>1. Complete(authority[c]) /\ authority[c] \in Authorities
      BY <1>1, <2>2 DEF Exists, SInv, CompleteOnes, Types
    <3>2. PICK ia \in Authorities : ia = authority[c]
      BY <3>1
    <3>3. Complete(ia)' /\ authority'[c] = ia
      BY <2>2, <3>1, <3>2
    <3> QED BY <3>3 DEF Complete
  <2> QED BY <2>1, <2>2
<1>2. Complete(factoryIA)'
  <2>1. PICK ia \in Authorities : ia = factoryIA
    BY DEF SInv, Types
  <2>2. Complete(ia)'
    BY <2>1 DEF SInv, CompleteOnes
  <2> QED BY <2>1, <2>2 DEF Complete
<1> QED BY <1>1, <1>2 DEF SInv, CompleteOnes

LEMMA AuthoritiesStay ==
  ASSUME SInv, UNCHANGED authorityVars
  PROVE  /\ Unmade' /\ Published' /\ ReleasesKept
         /\ \A ia \in Authorities : Complete(ia) => Complete(ia)'
BY DEF SInv, authorityVars, Made, Unmade, Published, ReleasesKept, Complete

LEMMA ChangeToExistingKeeps ==
  ASSUME SInv, NEW caller \in Accounts, NEW s \in Suites,
         NEW ia \in Authorities, NEW new \in Authorities, ChangeToExisting(caller, s, ia, new)
  PROVE  SInv' /\ ReleasesKept
<1> USE DEF ChangeToExisting
<1>1. /\ authority' \in [Contracts -> Authorities \cup {None}]
      /\ \A c \in Contracts : authority'[c] = authority[c] \/ (authority[c] = ia /\ authority'[c] = new)
      /\ Deployments' /\ Unmixed' /\ Together' /\ \A c \in Contracts : Exists(c)' <=> Exists(c)
  BY SuiteMoves DEF SInv
<1>2. Types'
  BY <1>1 DEF SInv, Types, authorityVars
<1>3. UNCHANGED authorityVars
  OBVIOUS
<1>4. Complete(new)'
  BY <1>3 DEF authorityVars, Complete
<1>5. \A c \in Contracts : authority'[c] # authority[c] /\ authority'[c] # None => Complete(authority[c])'
  BY <1>1, <1>4 DEF Complete
<1> QED BY <1>1, <1>2, <1>3, <1>5, AuthoritiesStay, SuitesMoveOver

LEMMA ChangeToNewAuthorities ==
  ASSUME SInv, NEW caller \in Accounts, NEW s \in Suites,
         NEW r \in References, NEW aux \in Auxiliaries, ChangeToNew(caller, s, r, aux)
  PROVE  /\ \A a \in Authorities, w \in Versions :
              releases'[a][w] = IF a = aux /\ w = current[r] THEN releases[r][w] ELSE releases[a][w]
         /\ \A a \in Authorities : current'[a] = IF a = aux THEN current[r] ELSE current[a]
         /\ \A a \in Authorities : iaOwner'[a] = IF a = aux THEN caller ELSE iaOwner[a]
         /\ \A w \in Versions : releases[aux][w] = None
         /\ current[aux] = None /\ current[r] \in Versions /\ releases[r][current[r]] # None
         /\ aux \in Authorities /\ r \in Authorities /\ aux # r /\ s \in deployed
<1> USE DEF ChangeToNew
<1>1. aux \in Authorities /\ r \in Authorities
  BY NoneIsNothing
<1>2. current[r] \in Versions /\ releases[r][current[r]] # None
  BY <1>1 DEF Complete, SInv, Types
<1>3. (\A w \in Versions : releases[aux][w] = None) /\ current[aux] = None
  BY <1>1 DEF SInv, Unmade
<1>4. owner[<<"token", s>>] = caller
  <2>1. <<"token", s>> \in Leads(s)
    BY DEF Leads
  <2> QED BY <2>1 DEF MayChange
<1>5. \A a \in Authorities, w \in Versions :
        releases'[a][w] = IF a = aux /\ w = current[r] THEN releases[r][w] ELSE releases[a][w]
  BY <1>1, <1>2 DEF SInv, Types
<1>6. \A a \in Authorities : current'[a] = IF a = aux THEN current[r] ELSE current[a]
  BY <1>1 DEF SInv, Types
<1>7. \A a \in Authorities : iaOwner'[a] = IF a = aux THEN caller ELSE iaOwner[a]
  BY <1>1, <1>4 DEF SInv, Types
<1>8. aux # r
  BY SuitesAssumption
<1>9. s \in deployed
  BY DEF MayChange
<1> QED BY <1>1, <1>2, <1>3, <1>5, <1>6, <1>7, <1>8, <1>9

LEMMA ChangeToNewKeeps ==
  ASSUME SInv, NEW caller \in Accounts, NEW s \in Suites,
         NEW r \in References, NEW aux \in Auxiliaries, ChangeToNew(caller, s, r, aux)
  PROVE  SInv' /\ ReleasesKept
<1>1. /\ \A a \in Authorities, w \in Versions :
           releases'[a][w] = IF a = aux /\ w = current[r] THEN releases[r][w] ELSE releases[a][w]
      /\ \A a \in Authorities : current'[a] = IF a = aux THEN current[r] ELSE current[a]
      /\ \A a \in Authorities : iaOwner'[a] = IF a = aux THEN caller ELSE iaOwner[a]
  BY ChangeToNewAuthorities
<1>2. /\ \A w \in Versions : releases[aux][w] = None
      /\ current[aux] = None /\ current[r] \in Versions /\ releases[r][current[r]] # None
      /\ aux \in Authorities /\ r \in Authorities /\ aux # r /\ s \in deployed
  BY ChangeToNewAuthorities
<1>3. UNCHANGED <<factoryIA, deployed, owner, uses, mixed>> /\ MayChange(caller, s, r)
      /\ authority' = Moved(s, r, aux)
  BY DEF ChangeToNew
<1>4. /\ authority' \in [Contracts -> Authorities \cup {None}]
      /\ \A c \in Contracts : authority'[c] = authority[c] \/ (authority[c] = r /\ authority'[c] = aux)
      /\ Deployments' /\ Unmixed' /\ Together' /\ \A c \in Contracts : Exists(c)' <=> Exists(c)
  BY <1>2, <1>3, SuiteMoves DEF SInv
<1>5. Types'
  <2>1. releases' \in [Authorities -> [Versions -> Releases \cup {None}]]
    BY <1>2 DEF ChangeToNew, SInv, Types
  <2>2. current' \in [Authorities -> Versions \cup {None}]
    BY <1>2 DEF ChangeToNew, SInv, Types
  <2>3. iaOwner' \in [Authorities -> Accounts \cup {None}]
    <3>1. owner[<<"token", s>>] = caller
      BY <1>3 DEF MayChange, Leads
    <3> QED BY <3>1 DEF ChangeToNew, SInv, Types
  <2>4. linked' \subseteq Authorities /\ iaFactories' \subseteq Authorities
    BY <1>2 DEF ChangeToNew, SInv, Types
  <2> QED BY <1>3, <1>4, <2>1, <2>2, <2>3, <2>4 DEF SInv, Types
<1>6. ReleasesKept
  BY <1>1, <1>2 DEF ReleasesKept
<1>7. Unmade'
  <2>1. linked' = linked \cup {aux}
    BY DEF ChangeToNew
  <2> QED BY <1>1, <2>1 DEF SInv, Unmade, Made
<1>8. Published'
  <2> SUFFICES ASSUME NEW a \in Authorities, NEW w \in Versions, releases'[a][w] # None
               PROVE  \E q \in References : releases'[q][w] = releases'[a][w]
    BY DEF Published
  <2>1. PICK b \in Authorities : releases[b][w] = releases'[a][w]
    BY <1>1, <1>2
  <2>2. PICK q \in References : releases[q][w] = releases[b][w]
    BY <2>1 DEF SInv, Published
  <2>3. releases'[q][w] = releases[q][w]
    BY <1>6, <2>1, <2>2, NoneIsNothing DEF ReleasesKept
  <2> QED BY <2>1, <2>2, <2>3
<1>9. \A a \in Authorities : Complete(a) => Complete(a)'
  <2> SUFFICES ASSUME NEW a \in Authorities, Complete(a) PROVE Complete(a)'
    OBVIOUS
  <2>1. a # aux
    BY <1>2 DEF Complete
  <2>2. current'[a] = current[a]
    BY <1>1, <2>1
  <2> QED BY <1>6, <2>2, StaysComplete DEF SInv
<1>10. Complete(aux)'
  <2>1. current'[aux] = current[r] /\ current[r] # None
    BY <1>1, <1>2, NoneIsNothing
  <2>2. releases'[aux][current[r]] = releases[r][current[r]]
    BY <1>1, <1>2
  <2> QED BY <1>2, <2>1, <2>2 DEF Complete
<1>11. \A c \in Contracts : authority'[c] # authority[c] /\ authority'[c] # None => Complete(authority[c])'
  BY <1>4, <1>10 DEF Complete
<1> QED BY <1>3, <1>4, <1>5, <1>6, <1>7, <1>8, <1>9, <1>11, SuitesMoveOver

LEMMA DeployKeeps ==
  ASSUME SInv, NEW s \in Suites, NEW shared \in Suites, NEW issuer \in Accounts,
         DeployTREXSuite(s, issuer, shared)
  PROVE  SInv' /\ ReleasesKept
<1> DEFINE made == Own(s) \cup (IF shared = s THEN {<<"irs", s>>} ELSE {})
<1>1. UNCHANGED authorityVars /\ factoryIA' = factoryIA /\ s \notin deployed
  BY DEF DeployTREXSuite
<1>2. /\ deployed' = deployed \cup {s}
      /\ uses' = [kind \in Parts |->
           [uses[kind] EXCEPT ![s] = IF kind = "irs" THEN shared ELSE s]]
      /\ mixed' = mixed
  BY DEF DeployTREXSuite
<1>3. /\ authority' = [c \in Contracts |-> IF c \in made THEN factoryIA ELSE authority[c]]
      /\ owner' = [c \in Contracts |->
           IF c \in Own(s) THEN issuer ELSE IF c \in made THEN Factory ELSE owner[c]]
  BY DEF DeployTREXSuite
<1>4. /\ Own(s) \subseteq made
      /\ \A t \in Suites : <<"irs", t>> \in made <=> t = s /\ shared = s
  BY OwnContracts
<1>5. \A t \in Suites : t # s => Own(t) \cap made = {}
  BY OwnContracts
<1>6. \A c \in Contracts : authority'[c] = IF c \in made THEN factoryIA ELSE authority[c]
  BY <1>3
<1> HIDE DEF made
<1>7. Types'
  <2>1. authority' \in [Contracts -> Authorities \cup {None}]
    BY <1>3 DEF SInv, Types
  <2>2. owner' \in [Contracts -> Accounts \cup {Factory, None}]
    BY <1>3 DEF SInv, Types
  <2>3. deployed' \subseteq Suites /\ mixed' \subseteq Suites
    BY <1>2 DEF SInv, Types
  <2>4. uses' \in [Parts -> [Suites -> Suites \cup {None}]]
    BY <1>2 DEF SInv, Types
  <2> QED BY <1>1, <2>1, <2>2, <2>3, <2>4 DEF SInv, Types, authorityVars
<1>8. factoryIA # None /\ issuer # None /\ Factory # None
  BY NoneIsNothing DEF SInv, Types
<1>9. \A c \in Contracts : Exists(c)' <=> c \in made \/ Exists(c)
  BY <1>6, <1>8 DEF Exists
<1>10. Deployments'
  <2>1. ASSUME NEW c \in Contracts
        PROVE  owner'[c] # None => Exists(c)'
    <3>1. c \notin made => owner'[c] = owner[c]
      BY <1>3, <1>4
    <3>2. owner[c] # None => Exists(c)
      BY DEF SInv, Deployments
    <3> QED BY <1>9, <3>1, <3>2
  <2>2. ASSUME NEW t \in Suites, Exists(<<"irs", t>>)'
        PROVE  t \in deployed'
    <3>1. <<"irs", t>> \in Contracts
      BY OwnContracts
    <3>2. <<"irs", t>> \in made \/ Exists(<<"irs", t>>)
      BY <1>9, <2>2, <3>1
    <3> QED BY <1>2, <1>4, <3>2 DEF SInv, Deployments
  <2>3. ASSUME NEW t \in Suites, NEW c \in Own(t)
        PROVE  Exists(c)' <=> t \in deployed'
    <3>0. c \in Contracts
      BY OwnContracts
    <3>1. CASE t = s
      BY <1>2, <1>4, <1>9, <3>0, <3>1
    <3>2. CASE t # s
      BY <1>2, <1>5, <1>9, <3>0, <3>2 DEF SInv, Deployments
    <3> QED BY <3>1, <3>2
  <2>5. \A t \in Suites : \A c \in Own(t) : Exists(c)' <=> t \in deployed'
    BY <2>3
  <2> QED BY <2>1, <2>2, <2>5 DEF Deployments
<1>11. Together'
  <2> SUFFICES ASSUME NEW t \in deployed' \ mixed'
               PROVE  \E ia \in Authorities : \A c \in Own(t) : authority'[c] = ia
    BY DEF Together
  <2>0. t \in Suites
    BY <1>7 DEF Types
  <2>1. CASE t = s
    <3>1. \A c \in Own(t) : c \in Contracts /\ c \in made
      BY <1>4, <2>0, <2>1, OwnContracts
    <3> QED BY <1>6, <3>1 DEF SInv, Types
  <2>2. CASE t # s
    <3>1. \A c \in Own(t) : c \in Contracts /\ c \notin made
      BY <1>5, <2>0, <2>2, OwnContracts
    <3>2. t \in deployed \ mixed
      BY <1>2, <2>2
    <3> QED BY <1>6, <3>1, <3>2 DEF SInv, Together
  <2> QED BY <2>1, <2>2
<1>12. \A c \in Contracts : authority'[c] # authority[c] /\ authority'[c] # None => Complete(authority[c])'
  BY <1>1, <1>6 DEF Complete, authorityVars, SInv, CompleteOnes
<1>13. Unmixed'
  <2> SUFFICES ASSUME NEW t \in Suites \ mixed', NEW kind \in OwnParts
               PROVE  /\ t \in deployed' => uses'[kind][t] = t
                      /\ \A o \in Suites : o # t => uses'[kind][o] # t
    BY DEF Unmixed
  <2>1. \A o \in Suites : uses'[kind][o] = IF o = s THEN s ELSE uses[kind][o]
    BY <1>2, PartsOf DEF SInv, Types
  <2>2. /\ t \in deployed => uses[kind][t] = t
        /\ \A o \in Suites : o # t => uses[kind][o] # t
    BY <1>2 DEF SInv, Unmixed
  <2> QED BY <1>2, <2>1, <2>2
<1> QED BY <1>1, <1>7, <1>10, <1>11, <1>12, <1>13, AuthoritiesStay, SuitesMoveOver

(* Who owns a contract does not matter here, only that what is not there has  *)
(* no owner.                                                                *)
LEMMA OwnershipKeeps ==
  ASSUME SInv, NEW kind \in Movable, NEW s \in Suites, NEW to \in Accounts \cup {Factory},
         \/ RecoverContractOwnership(<<kind, s>>, to)
         \/ TransferOwnership(<<kind, s>>, to)
         \/ RenounceOwnership(<<kind, s>>)
  PROVE  SInv' /\ ReleasesKept
<1>1. PICK c \in Contracts : c = <<kind, s>>
  BY SuitesAssumption DEF Contracts
<1>2. /\ UNCHANGED <<authorityVars, factoryIA, deployed, authority, uses, mixed>>
      /\ owner[c] # None
      /\ \E new \in Accounts \cup {Factory, None} : owner' = [owner EXCEPT ![c] = new]
  BY <1>1, NoneIsNothing DEF RecoverContractOwnership, TransferOwnership, RenounceOwnership
<1>3. Types'
  BY <1>2 DEF SInv, Types, authorityVars
<1>4. Deployments'
  <2>1. \A d \in Contracts : (owner'[d] # None => owner[d] # None) /\ (Exists(d)' <=> Exists(d))
    BY <1>2 DEF SInv, Types, Exists
  <2>2. \A d \in Contracts : owner'[d] # None => Exists(d)'
    BY <2>1 DEF SInv, Deployments
  <2>3. \A t \in Suites : /\ (Exists(<<"irs", t>>) => t \in deployed)'
                          /\ \A d \in Own(t) : (Exists(d) <=> t \in deployed)'
    BY <1>2 DEF SInv, Deployments, Exists
  <2> QED BY <2>2, <2>3 DEF Deployments
<1>5. Unmixed' /\ Together'
  BY <1>2 DEF SInv, Unmixed, Together
<1>6. \A d \in Contracts : authority'[d] = authority[d]
  BY <1>2
<1> QED BY <1>2, <1>3, <1>4, <1>5, <1>6, AuthoritiesStay, SuitesMoveOver

(* A pointer moves nothing; the suites that it leaves and reaches are mixed  *)
(* from then on.                                                            *)
LEMMA PointKeeps ==
  ASSUME SInv, NEW c \in Contracts, NEW kind \in Parts, NEW t \in Suites \cup {None},
         Point(c, kind, t)
  PROVE  SInv' /\ ReleasesKept
<1> DEFINE s == c[2]
<1>1. /\ UNCHANGED <<authorityVars, factoryIA, deployed, authority, owner>>
      /\ uses' = [uses EXCEPT ![kind] = [uses[kind] EXCEPT ![s] = t]]
      /\ mixed' = IF kind = "irs" \/ t = s THEN mixed ELSE mixed \cup ({s, t} \cap Suites)
  BY DEF Point
<1>2. s \in Suites
  BY DEF Contracts
<1> HIDE DEF s
<1>3. Types'
  BY <1>1, <1>2 DEF SInv, Types, authorityVars
<1>4. Deployments'
  BY <1>1 DEF SInv, Deployments, Exists
<1>5. Together'
  BY <1>1 DEF SInv, Together
<1>6. Unmixed'
  <2> SUFFICES ASSUME NEW u \in Suites \ mixed', NEW k \in OwnParts
               PROVE  /\ u \in deployed' => uses'[k][u] = u
                      /\ \A o \in Suites : o # u => uses'[k][o] # u
    BY DEF Unmixed
  <2>1. u \in Suites \ mixed
    BY <1>1
  <2>2. \A o \in Suites : uses'[k][o] = IF k = kind /\ o = s THEN t ELSE uses[k][o]
    BY <1>1, <1>2, PartsOf DEF SInv, Types
  <2>3. /\ u \in deployed => uses[k][u] = u
        /\ \A o \in Suites : o # u => uses[k][o] # u
    BY <2>1 DEF SInv, Unmixed
  <2>4. CASE k = kind /\ t # s
    <3>1. u # s /\ u # t
      BY <1>1, <1>2, <2>4, PartsOf
    <3> QED BY <1>1, <2>2, <2>3, <3>1
  <2>5. CASE k # kind \/ t = s
    BY <1>1, <2>2, <2>3, <2>5
  <2> QED BY <2>4, <2>5
<1>7. \A d \in Contracts : authority'[d] = authority[d]
  BY <1>1
<1> QED BY <1>1, <1>3, <1>4, <1>5, <1>6, <1>7, AuthoritiesStay, SuitesMoveOver

LEMMA PointersKeep ==
  ASSUME SInv, PointerStep
  PROVE  SInv' /\ ReleasesKept
<1>1. PICK s \in Suites, t \in Suites \cup {None} :
        \/ SetIdentityRegistry(s, t)
        \/ SetCompliance(s, t)
        \/ SetClaimTopicsRegistry(s, t)
        \/ SetTrustedIssuersRegistry(s, t)
        \/ SetIdentityRegistryStorage(s, t)
  BY DEF PointerStep
<1>2. <<"token", s>> \in Contracts /\ <<"ir", s>> \in Contracts
  BY DEF Contracts, Kinds
<1>3. {"ir", "mc", "ctr", "tir", "irs"} \subseteq Parts
  BY DEF Parts, Kinds
<1>4. \E c \in Contracts, kind \in Parts : Point(c, kind, t)
  BY <1>1, <1>2, <1>3 DEF SetIdentityRegistry, SetCompliance, SetClaimTopicsRegistry,
                          SetTrustedIssuersRegistry, SetIdentityRegistryStorage
<1> QED BY <1>4, PointKeeps

-----------------------------------------------------------------------------
(* The invariant.                                                          *)

LEMMA InitInv == ASSUME Init PROVE SInv
<1> USE DEF Init
<1>0. Main \in Authorities /\ First # None
  BY NoneIsNothing
<1>1. PICK release \in Releases :
        releases = [ia \in Authorities |-> [v \in Versions |->
          IF ia = Main /\ v = First THEN release ELSE None]]
  OBVIOUS
<1>2. release # None
  BY NoneIsNothing
<1>3. Types
  <2>1. releases \in [Authorities -> [Versions -> Releases \cup {None}]]
    BY <1>1
  <2>2. current \in [Authorities -> Versions \cup {None}]
        /\ iaOwner \in [Authorities -> Accounts \cup {None}]
    BY NoneIsNothing
  <2> QED BY <1>0, <2>1, <2>2 DEF Types
<1>4. Deployments
  BY OwnContracts DEF Deployments, Exists
<1>6. Unmade
  BY <1>1, NoneIsNothing DEF Unmade, Made
<1>7. Published
  BY <1>1, NoneIsNothing DEF Published
<1>8. CompleteOnes
  <2>1. Complete(factoryIA)
    BY <1>0, <1>1, <1>2, NoneIsNothing DEF Complete
  <2> QED BY <2>1 DEF CompleteOnes, Exists
<1>9. Together
  BY DEF Together
<1>10. Unmixed
  BY PartsOf, NoneIsNothing DEF Unmixed
<1> QED BY <1>3, <1>4, <1>6, <1>7, <1>8, <1>9, <1>10 DEF SInv

LEMMA StutterInv == ASSUME SInv, UNCHANGED vars PROVE SInv' /\ ReleasesKept
<1>1. UNCHANGED authorityVars /\ UNCHANGED suiteVars /\ factoryIA' = factoryIA
  BY DEF vars
<1>2. Types' /\ Deployments' /\ Unmixed' /\ Together'
  BY <1>1 DEF SInv, authorityVars, suiteVars, Types, Deployments, Unmixed, Together, Exists
<1>3. \A c \in Contracts : authority'[c] = authority[c]
  BY <1>1 DEF suiteVars
<1> QED BY <1>1, <1>2, <1>3, AuthoritiesStay, SuitesMoveOver

LEMMA StepInv == ASSUME SInv, [Next]_vars PROVE SInv' /\ ReleasesKept
<1>1. ASSUME AuthorityStep PROVE SInv' /\ ReleasesKept
  BY <1>1, AddKeeps, UseKeeps, FetchKeeps, LinkKeeps, SetAuthorityKeeps, AuthorityOwnerKeeps,
     NoneIsNothing DEF AuthorityStep
<1>2. ASSUME ChangeStep PROVE SInv' /\ ReleasesKept
  BY <1>2, ChangeToExistingKeeps, ChangeToNewKeeps DEF ChangeStep
<1>3. ASSUME SuiteStep PROVE SInv' /\ ReleasesKept
  BY <1>3, DeployKeeps, OwnershipKeeps, NoneIsNothing DEF SuiteStep
<1> QED BY <1>1, <1>2, <1>3, PointersKeep, StutterInv DEF Next

LEMMA Invariant == Spec => []SInv
<1>1. Init => SInv
  BY InitInv
<1>2. SInv /\ [Next]_vars => SInv'
  BY StepInv
<1> QED BY <1>1, <1>2, PTL DEF Spec

(* The variables keep their types, only contracts that are there have owners,  *)
(* and those of a deployed suite, and of no other one, are all there.        *)
THEOREM SuitesTypes == Spec => []SuitesTypeOK
<1>1. SInv => SuitesTypeOK
  BY DEF SInv, Types, Deployments, SuitesTypeOK
<1> QED BY <1>1, Invariant, PTL

(* The contracts of a suite are together on one authority, unless owners      *)
(* exchange one of them or point to one from another suite, and every         *)
(* contract runs a release that was published under the version in use: its  *)
(* authority is complete, and what it has fetched a reference has published. *)
THEOREM SuitesTogether == Spec => []SuitesRunOneRelease
<1>1. ASSUME SInv PROVE SuitesRunOneRelease
  <2>1. \A s \in deployed \ mixed : \E ia \in Authorities : \A c \in Own(s) : authority[c] = ia
    BY <1>1 DEF SInv, Together
  <2>2. ASSUME NEW c \in Contracts, Exists(c)
        PROVE  /\ Runs(c) # None
               /\ \E r \in References : releases[r][current[authority[c]]] = Runs(c)
    <3>1. authority[c] \in Authorities /\ Complete(authority[c])
      BY <1>1, <2>2 DEF SInv, Types, CompleteOnes, Exists
    <3>2. current[authority[c]] \in Versions
      BY <1>1, <3>1 DEF SInv, Types, Complete
    <3> QED BY <1>1, <3>1, <3>2 DEF SInv, Published, Complete, Runs
  <2> QED BY <2>1, <2>2 DEF SuitesRunOneRelease
<1> QED BY <1>1, Invariant, PTL

-----------------------------------------------------------------------------
(* What a contract runs, from step to step.                                 *)

LEMMA RunsOn ==
  ASSUME SInv, ReleasesKept, NEW c \in Contracts, Exists(c),
         authority'[c] = authority[c], current'[authority[c]] = current[authority[c]]
  PROVE  Runs(c)' = Runs(c)
<1>1. authority[c] \in Authorities /\ Complete(authority[c])
  BY DEF Exists, SInv, Types, CompleteOnes
<1>2. PICK ia \in Authorities : ia = authority[c]
  BY <1>1
<1>3. releases'[ia][current'[ia]] = releases[ia][current[ia]]
  BY <1>1, <1>2, StaysComplete DEF SInv
<1> QED BY <1>2, <1>3 DEF Runs

LEMMA UseRuns ==
  ASSUME SInv, ReleasesKept, NEW c \in Contracts, Exists(c),
         NEW ia \in Authorities, NEW v \in Versions, UseTREXVersion(ia, v)
  PROVE  \/ Runs(c)' = Runs(c)
         \/ /\ authority'[c] = authority[c]
            /\ \E w \in Versions : UseTREXVersion(authority[c], w)
<1>1. authority'[c] = authority[c] /\ current' = [current EXCEPT ![ia] = v]
  BY DEF UseTREXVersion, suiteVars
<1>2. CASE authority[c] = ia
  BY <1>1, <1>2
<1>3. CASE authority[c] # ia
  <2>1. current'[authority[c]] = current[authority[c]]
    BY <1>1, <1>3 DEF SInv, Types, Exists
  <2> QED BY <1>1, <2>1, RunsOn
<1> QED BY <1>2, <1>3

LEMMA ExistingRuns ==
  ASSUME SInv, SInv', ReleasesKept, Agreed', NEW c \in Contracts, Exists(c),
         NEW caller \in Accounts, NEW s \in Suites, NEW ia \in Authorities, NEW new \in Authorities,
         ChangeToExisting(caller, s, ia, new)
  PROVE  Runs(c)' = Runs(c)
<1>1. authority'[c] = authority[c] \/ (authority[c] = ia /\ authority'[c] = new)
  BY SuiteMoves DEF ChangeToExisting, SInv
<1>2. current' = current /\ releases' = releases /\ current[new] = current[ia] /\ Complete(new)
  BY DEF ChangeToExisting, authorityVars
<1>3. CASE authority'[c] = authority[c]
  BY <1>2, <1>3, RunsOn
<1>4. CASE authority[c] = ia /\ authority'[c] = new
  <2>1. PICK v \in Versions : v = current[new]
    BY <1>2 DEF Complete, SInv, Types
  <2>2. releases[new][v] # None /\ releases[ia][v] # None
    BY <1>2, <1>4, <2>1 DEF Complete, SInv, CompleteOnes
  <2>3. PICK r1 \in References : releases[r1][v] = releases[new][v]
    BY <2>2 DEF SInv, Published
  <2>4. PICK r2 \in References : releases[r2][v] = releases[ia][v]
    BY <2>2 DEF SInv, Published
  <2>5. releases[r1][v] = releases[r2][v]
    BY <1>2, <2>2, <2>3, <2>4 DEF Agreed
  <2>6. Runs(c) = releases[ia][v] /\ Runs(c)' = releases[new][v]
    BY <1>2, <1>4, <2>1 DEF Runs
  <2> QED BY <2>3, <2>4, <2>5, <2>6
<1> QED BY <1>1, <1>3, <1>4

LEMMA NewRuns ==
  ASSUME SInv, ReleasesKept, NEW c \in Contracts, Exists(c),
         NEW caller \in Accounts, NEW s \in Suites, NEW r \in References, NEW aux \in Auxiliaries,
         ChangeToNew(caller, s, r, aux)
  PROVE  Runs(c)' = Runs(c)
<1>1. /\ \A a \in Authorities, w \in Versions :
           releases'[a][w] = IF a = aux /\ w = current[r] THEN releases[r][w] ELSE releases[a][w]
      /\ \A a \in Authorities : current'[a] = IF a = aux THEN current[r] ELSE current[a]
  BY ChangeToNewAuthorities
<1>2. /\ current[aux] = None /\ current[r] \in Versions
      /\ aux \in Authorities /\ r \in Authorities
  BY ChangeToNewAuthorities
<1>3. authority'[c] = authority[c] \/ (authority[c] = r /\ authority'[c] = aux)
  BY <1>2, SuiteMoves DEF ChangeToNew, SInv
<1>4. CASE authority'[c] = authority[c]
  <2>1. authority[c] \in Authorities /\ authority[c] # aux
    BY <1>2 DEF Exists, SInv, Types, CompleteOnes, Complete
  <2>2. current'[authority[c]] = current[authority[c]]
    BY <1>1, <2>1
  <2> QED BY <1>4, <2>2, RunsOn
<1>5. CASE authority[c] = r /\ authority'[c] = aux
  <2>1. current'[aux] = current[r]
    BY <1>1, <1>2
  <2>2. releases'[aux][current[r]] = releases[r][current[r]]
    BY <1>1, <1>2
  <2> QED BY <1>5, <2>1, <2>2 DEF Runs
<1> QED BY <1>3, <1>4, <1>5

LEMMA DeployRuns ==
  ASSUME SInv, ReleasesKept, NEW c \in Contracts, Exists(c),
         NEW s \in Suites, NEW shared \in Suites, NEW issuer \in Accounts,
         DeployTREXSuite(s, issuer, shared)
  PROVE  Runs(c)' = Runs(c)
<1> DEFINE made == Own(s) \cup (IF shared = s THEN {<<"irs", s>>} ELSE {})
<1>1. authority' = [d \in Contracts |-> IF d \in made THEN factoryIA ELSE authority[d]]
      /\ s \notin deployed /\ current' = current
  BY DEF DeployTREXSuite, authorityVars
<1>2. c \notin Own(s)
  BY <1>1 DEF SInv, Deployments
<1>3. c # <<"irs", s>>
  BY <1>1 DEF SInv, Deployments
<1>4. authority'[c] = authority[c]
  BY <1>1, <1>2, <1>3
<1> QED BY <1>1, <1>4, RunsOn

(* A release is never replaced, an authority that is new starts with the       *)
(* release of the reference, and one that a suite changes to has the same      *)
(* version, published by some reference: so only the owner of the authority   *)
(* of a contract changes the code that it runs, by going to another version. *)
THEOREM UpgradesOnly == Spec => OnlyUpgradesChangeCode
<1>1. ASSUME SInv, Next, Agreed', NEW c \in Contracts, Exists(c)
      PROVE  \/ Runs(c)' = Runs(c)
             \/ /\ authority'[c] = authority[c]
                /\ \E v \in Versions : UseTREXVersion(authority[c], v)
  <2>0. SInv' /\ ReleasesKept
    BY <1>1, StepInv
  <2>1. CASE \E ia \in Authorities, v \in Versions : UseTREXVersion(ia, v)
    BY <1>1, <2>0, <2>1, UseRuns
  <2>2. CASE ChangeStep
    <3>1. PICK caller \in Accounts, s \in Suites :
            \/ \E ia, new \in Authorities : ChangeToExisting(caller, s, ia, new)
            \/ \E r \in References, aux \in Auxiliaries : ChangeToNew(caller, s, r, aux)
      BY <2>2 DEF ChangeStep
    <3> QED BY <1>1, <2>0, <3>1, ExistingRuns, NewRuns
  <2>3. CASE \E s, shared \in Suites, issuer \in Accounts : DeployTREXSuite(s, issuer, shared)
    BY <1>1, <2>0, <2>3, DeployRuns
  <2>4. CASE authority' = authority /\ current' = current
    BY <1>1, <2>0, <2>4, RunsOn
  <2>5. AuthorityStep => \/ \E ia \in Authorities, v \in Versions : UseTREXVersion(ia, v)
                         \/ authority' = authority /\ current' = current
    BY DEF AuthorityStep, AddTREXVersion, FetchVersion, SetTREXFactory, SetIAFactory,
           SetImplementationAuthority, TransferAuthority, RenounceAuthority, authorityVars,
           suiteVars
  <2>6. SuiteStep => \/ \E s, shared \in Suites, issuer \in Accounts : DeployTREXSuite(s, issuer, shared)
                     \/ authority' = authority /\ current' = current
    BY DEF SuiteStep, RecoverContractOwnership, TransferOwnership, RenounceOwnership,
           authorityVars
  <2>7. PointerStep => authority' = authority /\ current' = current
    BY DEF PointerStep, SetIdentityRegistry, SetCompliance, SetClaimTopicsRegistry,
           SetTrustedIssuersRegistry, SetIdentityRegistryStorage, Point, authorityVars
  <2> QED BY <1>1, <2>1, <2>2, <2>3, <2>4, <2>5, <2>6, <2>7 DEF Next
<1>2. SInv /\ [Next]_vars =>
        [Agreed' => \A c \in Contracts : Exists(c) =>
           \/ Runs(c)' = Runs(c)
           \/ /\ authority'[c] = authority[c]
              /\ \E v \in Versions : UseTREXVersion(authority[c], v)]_vars
  BY <1>1
<1> QED BY <1>2, Invariant, PTL DEF Spec, OnlyUpgradesChangeCode
=============================================================================
