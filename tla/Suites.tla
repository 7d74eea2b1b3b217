------------------------------- MODULE Suites -------------------------------
(***************************************************************************)
(* The deployment and the upgrade of T-REX suites: TREXFactory,             *)
(* TREXImplementationAuthority, IAFactory, and the ownership and the         *)
(* authority of the proxies that they make.                                 *)
(*                                                                         *)
(* A suite is a token with its registries and its compliance, each a proxy   *)
(* that asks its implementation authority at every call which code to run.   *)
(* A reference authority publishes releases under versions; an issuer may    *)
(* move a suite to an authority of its own, which fetches them from the      *)
(* reference and goes to other versions when its owner wants it to.          *)
(*                                                                         *)
(* A suite is named by its salt: the contracts that the factory has made     *)
(* under it, which start out pointing to each other.  What a change of       *)
(* authority moves it finds by following the pointers, from the token to its *)
(* registry and compliance and from the registry to the topics, the issuers  *)
(* and the storage, and owners can exchange every one of them: the storage   *)
(* is shared by suites on purpose, the others may be.  Contracts that the    *)
(* factory has not made count as None: no change of authority gets through   *)
(* them.  There is one TREXFactory and one IAFactory; an auxiliary authority  *)
(* is one that the IAFactory has made.                                      *)
(***************************************************************************)
EXTENDS Naturals

CONSTANTS
  Accounts,
  Platform,         \* the owner of the factory
  Factory,          \* the TREXFactory, as an owner
  References,       \* authorities deployed as reference contracts
  Main,             \* the reference that the factory is constructed with
  Auxiliaries,      \* bound: authorities that the IAFactory makes
  Suites,           \* bound: salts
  Versions, First,  \* First: the version that Main uses when the factory is constructed
  Releases,         \* sets of six implementations (TREXContracts), all of them there
  None,             \* no version (0.0.0), no release, no address
  Movable           \* bound: the kinds of contracts whose ownership changes hands

Authorities == References \cup Auxiliaries
Kinds       == {"token", "ir", "mc", "ctr", "tir", "irs"}
OwnKinds    == Kinds \ {"irs"}
Parts       == Kinds \ {"token"}
Contracts   == Kinds \X Suites

ASSUME SuitesAssumption ==
  /\ Platform \in Accounts /\ Factory \notin Accounts
  /\ References \cap Auxiliaries = {} /\ Main \in References
  /\ First \in Versions
  /\ None \notin Accounts \cup {Factory} \cup Authorities \cup Suites \cup Versions \cup Releases
  /\ Movable \subseteq Kinds

VARIABLES
  releases,         \* _contracts of each authority
  current,          \* _currentVersion
  iaOwner,          \* the owner of each authority, None if there is none (yet, or any more)
  linked,           \* the references with a _trexFactory
  iaFactories,      \* the authorities with an _iaFactory
  factoryIA,        \* _implementationAuthority of the factory
  deployed,         \* the salts in tokenDeployed
  authority,        \* the authority of each proxy, None if it is not deployed
  owner,            \* its owner, None if there is none (yet, or any more)
  uses,             \* whose registry and compliance a token, and whose topics, issuers
                    \* and storage a registry uses: None is any other address, zero too
  mixed             \* history: suites of which a part but the storage was exchanged, and
                    \* those whose part was taken for it

authorityVars == <<releases, current, iaOwner, linked, iaFactories>>
suiteVars     == <<deployed, authority, owner, uses, mixed>>
vars          == <<authorityVars, factoryIA, suiteVars>>

(* getTokenImplementation and the others: all of them are there or none.     *)
Complete(ia) == current[ia] # None /\ releases[ia][current[ia]] # None

(* The code that a proxy delegates to.                                      *)
Runs(c) == releases[authority[c]][current[authority[c]]]

Exists(c) == authority[c] # None
Made(ia)  == ia \in References \cup linked
Own(s)    == {<<kind, s>> : kind \in OwnKinds}

(* What the token of s leads to: its own contract and four others that must  *)
(* be on its authority, and the storage.                                    *)
Registry(s) == uses["ir"][s]
Leads(s)    == {<<"token", s>>, <<"ir", Registry(s)>>, <<"mc", uses["mc"][s]>>}
                 \cup {<<kind, uses[kind][Registry(s)]>> : kind \in {"ctr", "tir"}}
Storage(s)  == <<"irs", uses["irs"][Registry(s)]>>
-----------------------------------------------------------------------------
(* Authorities.                                                            *)

(* Mutant: a version that exists is replaced.                               *)
ReplaceTREXVersion(r, v, release) ==
  /\ releases' = [releases EXCEPT ![r][v] = release]
  /\ UNCHANGED <<current, iaOwner, linked, iaFactories, factoryIA, suiteVars>>

(* By the owner of the reference.                                           *)
AddTREXVersion(r, v, release) ==
  /\ iaOwner[r] # None
  /\ releases[r][v] = None
  /\ releases' = [releases EXCEPT ![r][v] = release]
  /\ UNCHANGED <<current, iaOwner, linked, iaFactories, factoryIA, suiteVars>>

(* By the owner of the authority.                                           *)
UseTREXVersion(ia, v) ==
  /\ iaOwner[ia] # None
  /\ v # current[ia]
  /\ releases[ia][v] # None
  /\ current' = [current EXCEPT ![ia] = v]
  /\ UNCHANGED <<releases, iaOwner, linked, iaFactories, factoryIA, suiteVars>>

(* Mutant: a version is fetched again.                                      *)
FetchAgain(aux, v) ==
  /\ Made(aux)
  /\ releases' = [releases EXCEPT ![aux][v] = releases[factoryIA][v]]
  /\ UNCHANGED <<current, iaOwner, linked, iaFactories, factoryIA, suiteVars>>

(* fetchVersion, by anybody, from whatever is the factory's authority now;   *)
(* a version that it lacks is fetched as none.                              *)
FetchVersion(aux, v) ==
  /\ Made(aux)
  /\ releases[aux][v] = None
  /\ releases' = [releases EXCEPT ![aux][v] = releases[factoryIA][v]]
  /\ UNCHANGED <<current, iaOwner, linked, iaFactories, factoryIA, suiteVars>>

SetTREXFactory(r) ==
  /\ iaOwner[r] # None
  /\ factoryIA = r
  /\ linked' = linked \cup {r}
  /\ UNCHANGED <<releases, current, iaOwner, iaFactories, factoryIA, suiteVars>>

SetIAFactory(r) ==
  /\ iaOwner[r] # None
  /\ r \in linked /\ factoryIA = r
  /\ iaFactories' = iaFactories \cup {r}
  /\ UNCHANGED <<releases, current, iaOwner, linked, factoryIA, suiteVars>>

(* By the owner of the authority, transferOwnership and renounceOwnership.   *)
TransferAuthority(ia, to) ==
  /\ iaOwner[ia] # None
  /\ iaOwner' = [iaOwner EXCEPT ![ia] = to]
  /\ UNCHANGED <<releases, current, linked, iaFactories, factoryIA, suiteVars>>

RenounceAuthority(ia) ==
  /\ iaOwner[ia] # None
  /\ iaOwner' = [iaOwner EXCEPT ![ia] = None]
  /\ UNCHANGED <<releases, current, linked, iaFactories, factoryIA, suiteVars>>

(* Mutant: one of the registries is forgotten.                              *)
MovedButIssuers(s, ia, new) ==
  [c \in Contracts |->
     IF c \in {d \in Leads(s) : d[1] # "tir"} \/ (c = Storage(s) /\ authority[c] = ia)
     THEN new ELSE authority[c]]

(* The proxies that s leads to go over to another authority; a storage that  *)
(* is shared may have done so already.                                      *)
Moved(s, ia, new) ==
  [c \in Contracts |->
     IF c \in Leads(s) \/ (c = Storage(s) /\ authority[c] = ia) THEN new ELSE authority[c]]

(* What changeImplementationAuthority demands of its caller, and the         *)
(* proxies of the authority that calls them.                                *)
MayChange(caller, s, ia) ==
  /\ s \in deployed
  /\ Registry(s) \in Suites
  /\ Leads(s) \cup {Storage(s)} \subseteq Contracts
  /\ \A c \in Leads(s) \cup {Storage(s)} : owner[c] = caller
  /\ \A c \in Leads(s) : authority[c] = ia
  /\ ia \in iaFactories

(* changeImplementationAuthority on ia, to another one: made by the          *)
(* IAFactory, or the reference of the factory.                              *)
ChangeToExisting(caller, s, ia, new) ==
  /\ MayChange(caller, s, ia)
  /\ current[new] = current[ia]
  /\ Made(new)
  /\ new \in References => new = factoryIA /\ ia \in linked
  /\ Complete(new)
  /\ authority' = Moved(s, ia, new)
  /\ UNCHANGED <<authorityVars, factoryIA, deployed, owner, uses, mixed>>

(* To one that IAFactory.deployIA makes on the way, with the current version *)
(* of the reference, and which belongs to the owner of the token.            *)
ChangeToNew(caller, s, r, aux) ==
  /\ MayChange(caller, s, r)
  /\ factoryIA = r /\ r \in linked
  /\ Complete(r)
  /\ ~Made(aux)
  /\ releases' = [releases EXCEPT ![aux][current[r]] = releases[r][current[r]]]
  /\ current' = [current EXCEPT ![aux] = current[r]]
  /\ iaOwner' = [iaOwner EXCEPT ![aux] = owner[<<"token", s>>]]
  /\ linked' = linked \cup {aux} /\ iaFactories' = iaFactories \cup {aux}
  /\ authority' = Moved(s, r, aux)
  /\ UNCHANGED <<factoryIA, deployed, owner, uses, mixed>>
-----------------------------------------------------------------------------
(* The factory.                                                            *)

(* By the owner of the factory.                                             *)
SetImplementationAuthority(ia) ==
  /\ Complete(ia)
  /\ factoryIA' = ia
  /\ UNCHANGED <<authorityVars, suiteVars>>

(* Mutant: the salt is not noted, and can be used again.                     *)
DeployUnnoted(s, issuer, shared) ==
  LET made == Own(s) \cup (IF shared = s THEN {<<"irs", s>>} ELSE {})
  IN  /\ s \notin deployed
      /\ shared # s => owner[<<"irs", shared>>] = Factory
      /\ authority' = [c \in Contracts |-> IF c \in made THEN factoryIA ELSE authority[c]]
      /\ owner' = [c \in Contracts |->
           IF c \in Own(s) THEN issuer ELSE IF c \in made THEN Factory ELSE owner[c]]
      /\ uses' = [kind \in Parts |->
           [uses[kind] EXCEPT ![s] = IF kind = "irs" THEN shared ELSE s]]
      /\ UNCHANGED <<authorityVars, factoryIA, deployed, mixed>>

(* deployTREXSuite, with a storage of its own or with that of another suite,  *)
(* to which the registry can be bound only if the factory owns it.  The       *)
(* factory hands over what it has made, except for the storage.             *)
DeployTREXSuite(s, issuer, shared) ==
  LET made == Own(s) \cup (IF shared = s THEN {<<"irs", s>>} ELSE {})
  IN  /\ s \notin deployed
      /\ shared # s => owner[<<"irs", shared>>] = Factory
      /\ deployed' = deployed \cup {s}
      /\ authority' = [c \in Contracts |-> IF c \in made THEN factoryIA ELSE authority[c]]
      /\ owner' = [c \in Contracts |->
           IF c \in Own(s) THEN issuer ELSE IF c \in made THEN Factory ELSE owner[c]]
      /\ uses' = [kind \in Parts |->
           [uses[kind] EXCEPT ![s] = IF kind = "irs" THEN shared ELSE s]]
      /\ UNCHANGED <<authorityVars, factoryIA, mixed>>

(* By the owner of the factory.                                             *)
RecoverContractOwnership(c, to) ==
  /\ owner[c] = Factory
  /\ owner' = [owner EXCEPT ![c] = to]
  /\ UNCHANGED <<authorityVars, factoryIA, deployed, authority, uses, mixed>>

(* By the owner, transferOwnership and renounceOwnership.                    *)
TransferOwnership(c, to) ==
  /\ owner[c] \in Accounts
  /\ owner' = [owner EXCEPT ![c] = to]
  /\ UNCHANGED <<authorityVars, factoryIA, deployed, authority, uses, mixed>>

RenounceOwnership(c) ==
  /\ owner[c] \in Accounts
  /\ owner' = [owner EXCEPT ![c] = None]
  /\ UNCHANGED <<authorityVars, factoryIA, deployed, authority, uses, mixed>>
-----------------------------------------------------------------------------
(* The pointers, set by the owner of the contract that has them to any       *)
(* address: to a contract that is not there yet, or to none at all.          *)

Point(c, kind, t) ==
  /\ owner[c] \in Accounts
  /\ uses' = [uses EXCEPT ![kind] = [uses[kind] EXCEPT ![c[2]] = t]]
  /\ mixed' = IF kind = "irs" \/ t = c[2] THEN mixed ELSE mixed \cup ({c[2], t} \cap Suites)
  /\ UNCHANGED <<authorityVars, factoryIA, deployed, authority, owner>>

SetIdentityRegistry(s, t) == Point(<<"token", s>>, "ir", t)

(* The new compliance must be there: it is called.  Its owner and that of the *)
(* old one can bind and unbind any token, so the binding does not stand in    *)
(* the way for good, and is left out.                                       *)
SetCompliance(s, t) ==
  /\ t \in Suites => Exists(<<"mc", t>>)
  /\ Point(<<"token", s>>, "mc", t)

SetClaimTopicsRegistry(s, t)     == Point(<<"ir", s>>, "ctr", t)
SetTrustedIssuersRegistry(s, t)  == Point(<<"ir", s>>, "tir", t)
SetIdentityRegistryStorage(s, t) == Point(<<"ir", s>>, "irs", t)
-----------------------------------------------------------------------------
Init ==
  /\ \E release \in Releases :
       releases = [ia \in Authorities |-> [v \in Versions |->
         IF ia = Main /\ v = First THEN release ELSE None]]
  /\ current = [ia \in Authorities |-> IF ia = Main THEN First ELSE None]
  /\ iaOwner = [ia \in Authorities |-> IF ia \in References THEN Platform ELSE None]
  /\ linked = {} /\ iaFactories = {}
  /\ factoryIA = Main
  /\ deployed = {}
  /\ authority = [c \in Contracts |-> None]
  /\ owner = [c \in Contracts |-> None]
  /\ uses = [kind \in Parts |-> [s \in Suites |-> None]]
  /\ mixed = {}

AuthorityStep ==
  \/ \E r \in References, v \in Versions, release \in Releases : AddTREXVersion(r, v, release)
  \/ \E ia \in Authorities, v \in Versions : UseTREXVersion(ia, v)
  \/ \E aux \in Auxiliaries, v \in Versions : FetchVersion(aux, v)
  \/ \E r \in References : SetTREXFactory(r) \/ SetIAFactory(r)
  \/ \E ia \in Authorities : SetImplementationAuthority(ia) \/ RenounceAuthority(ia)
  \/ \E ia \in Authorities, to \in Accounts : TransferAuthority(ia, to)

ChangeStep ==
  \E caller \in Accounts, s \in Suites :
    \/ \E ia, new \in Authorities : ChangeToExisting(caller, s, ia, new)
    \/ \E r \in References, aux \in Auxiliaries : ChangeToNew(caller, s, r, aux)

SuiteStep ==
  \/ \E s, shared \in Suites, issuer \in Accounts : DeployTREXSuite(s, issuer, shared)
  \/ \E kind \in Movable, s \in Suites, to \in Accounts \cup {Factory} :
       RecoverContractOwnership(<<kind, s>>, to) \/ TransferOwnership(<<kind, s>>, to)
  \/ \E kind \in Movable, s \in Suites : RenounceOwnership(<<kind, s>>)

PointerStep ==
  \E s \in Suites, t \in Suites \cup {None} :
    \/ SetIdentityRegistry(s, t)
    \/ SetCompliance(s, t)
    \/ SetClaimTopicsRegistry(s, t)
    \/ SetTrustedIssuersRegistry(s, t)
    \/ SetIdentityRegistryStorage(s, t)

Next == AuthorityStep \/ ChangeStep \/ SuiteStep \/ PointerStep

Spec == Init /\ [][Next]_vars
-----------------------------------------------------------------------------
(* Properties.                                                             *)

(* Types; only contracts that are there have an owner, those of a salt that   *)
(* is deployed are all there, and none of another one is.                    *)
SuitesTypeOK ==
  /\ releases \in [Authorities -> [Versions -> Releases \cup {None}]]
  /\ current \in [Authorities -> Versions \cup {None}]
  /\ iaOwner \in [Authorities -> Accounts \cup {None}]
  /\ linked \subseteq Authorities /\ iaFactories \subseteq Authorities
  /\ factoryIA \in Authorities
  /\ deployed \subseteq Suites /\ mixed \subseteq Suites
  /\ authority \in [Contracts -> Authorities \cup {None}]
  /\ owner \in [Contracts -> Accounts \cup {Factory, None}]
  /\ uses \in [Parts -> [Suites -> Suites \cup {None}]]
  /\ \A c \in Contracts : owner[c] # None => Exists(c)
  /\ \A s \in Suites : /\ Exists(<<"irs", s>>) => s \in deployed
                       /\ \A c \in Own(s) : Exists(c) <=> s \in deployed

(* TREXFactory.sol:205: "should not be possible to set an implementation      *)
(* authority that is not complete".  Whatever is published, fetched, shared   *)
(* and handed over, every contract runs a release that a reference has        *)
(* published under the version its authority uses, never none; and the       *)
(* contracts of a suite stay together on one authority, although each call    *)
(* finds them by their pointers, unless the owner exchanges one of them or    *)
(* another suite points to one.  (The storage may stay behind on its own.)   *)
SuitesRunOneRelease ==
  /\ \A s \in deployed \ mixed : \E ia \in Authorities : \A c \in Own(s) : authority[c] = ia
  /\ \A c \in Contracts : Exists(c) =>
       /\ Runs(c) # None
       /\ \E r \in References : releases[r][current[authority[c]]] = Runs(c)

(* The references agree what the versions are that they share.               *)
Agreed ==
  \A r1, r2 \in References, v \in Versions :
    None \notin {releases[r1][v], releases[r2][v]} => releases[r1][v] = releases[r2][v]

(* A contract runs other code only after the owner of its own authority has   *)
(* gone to another version: not when a suite changes authority, a storage     *)
(* moves with another suite, the platform changes the reference, or anybody  *)
(* fetches a version; as long as references agree what a version is.         *)
OnlyUpgradesChangeCode ==
  [][Agreed' => \A c \in Contracts : Exists(c) =>
       \/ Runs(c)' = Runs(c)
       \/ /\ authority'[c] = authority[c]
          /\ \E v \in Versions : UseTREXVersion(authority[c], v)]_vars
=============================================================================
