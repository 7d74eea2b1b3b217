------------------------------ MODULE MCSuites ------------------------------
(***************************************************************************)
(* Two suites that may share the storage of the first, the reference that    *)
(* the factory starts with and another one, and authorities of issuers.      *)
(***************************************************************************)
EXTENDS Suites, TLC

CONSTANTS
  s1, s2,
  Other,            \* the other reference
  Second            \* the version after First

Symmetry == Permutations(Releases)

(* Main is linked with the two factories, and has deployed s1, whose storage *)
(* the factory still owns.                                                  *)
DeployedInit ==
  /\ \E release \in Releases :
       releases = [ia \in Authorities |-> [v \in Versions |->
         IF ia = Main /\ v = First THEN release ELSE None]]
  /\ current = [ia \in Authorities |-> IF ia = Main THEN First ELSE None]
  /\ iaOwner = [ia \in Authorities |-> IF ia \in References THEN Platform ELSE None]
  /\ linked = {Main} /\ iaFactories = {Main}
  /\ factoryIA = Main
  /\ deployed = {s1}
  /\ authority = [c \in Contracts |-> IF c \in Own(s1) \cup {<<"irs", s1>>} THEN Main ELSE None]
  /\ owner = [c \in Contracts |->
       IF c \in Own(s1) THEN Platform ELSE IF c = <<"irs", s1>> THEN Factory ELSE None]
  /\ uses = [kind \in Parts |-> [s \in Suites |-> IF s = s1 THEN s1 ELSE None]]
  /\ mixed = {}

Plain == \A r \in References, v \in Versions : releases[r][v] # None => <<r, v>> = <<Main, First>>
AsMade == mixed = {} /\ \A r \in References : iaOwner[r] = Platform

(* Main publishes one more version, Other publishes the first one, with the   *)
(* same release or another, and s2 comes to use the storage of s1, or not.   *)
PublishStep ==
  \/ AsMade /\ \E release \in Releases :
       AddTREXVersion(Main, Second, release) \/ AddTREXVersion(Other, First, release)
  \/ \E ia \in Authorities, v \in Versions : UseTREXVersion(ia, v)
  \/ \E aux \in Auxiliaries, v \in Versions : FetchVersion(aux, v)
  \/ \E r \in References : SetTREXFactory(r) \/ SetIAFactory(r)
  \/ \E ia \in Authorities : SetImplementationAuthority(ia)
  \/ \E shared \in Suites, issuer \in Accounts : DeployTREXSuite(s2, issuer, shared)
  \/ \E kind \in Movable, s \in Suites, to \in Accounts \cup {Factory} :
       RecoverContractOwnership(<<kind, s>>, to) \/ TransferOwnership(<<kind, s>>, to)
  \/ \E t \in {s1, None} : SetIdentityRegistryStorage(s2, t)
  \/ SetClaimTopicsRegistry(s2, s1)

(* While there is only one release, the owner of both suites exchanges parts  *)
(* of s2 for those of s1, for others or back,                                *)
ExchangeStep ==
  /\ Plain /\ iaOwner[Main] = Platform /\ owner[<<"token", s2>>] = Platform
  /\ \/ \E t \in Suites :
          \/ SetCompliance(s2, t)
          \/ SetClaimTopicsRegistry(s2, t)
          \/ SetTrustedIssuersRegistry(s2, t)
     \/ \E t \in Suites \cup {None} : SetIdentityRegistry(s2, t)

(* or owners give up what they have.                                        *)
RenounceStep ==
  /\ Plain /\ mixed = {}
  /\ \/ \E kind \in Movable, s \in Suites : RenounceOwnership(<<kind, s>>)
     \/ RenounceAuthority(Main)
     \/ \E to \in Accounts : TransferAuthority(Main, to)

DeployedNext == PublishStep \/ ChangeStep \/ ExchangeStep \/ RenounceStep

DeployedSpec == DeployedInit /\ [][DeployedNext]_vars
=============================================================================
