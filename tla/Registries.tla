----------------------------- MODULE Registries -----------------------------
(***************************************************************************)
(* Who counts as a verified investor: the trusted issuers and the topics     *)
(* they may certify (TrustedIssuersRegistry.sol), the topics that the token   *)
(* requires (ClaimTopicsRegistry.sol), the identity of each wallet           *)
(* (IdentityRegistryStorage.sol), the claims that the identities hold        *)
(* (onchain-id), and isVerified (IdentityRegistry.sol), which puts them       *)
(* together each time the token asks.                                       *)
(*                                                                         *)
(* The trusted issuers are kept three times: as a list, by issuer and by     *)
(* topic.  Lists are arrays, from which the code removes an entry by moving  *)
(* the last one into its place.                                             *)
(***************************************************************************)
EXTENDS Naturals, SequencesExt

CONSTANTS
  Wallets,
  Identities,           \* the ONCHAINIDs
  NoIdentity,           \* the zero address: the wallet has no identity stored
  Issuers,              \* the claim issuers
  Topics,               \* the claim topics, none of them 0
  MaxTopicsOfIssuer,    \* 15 in the code
  MaxIssuers,           \* 50 in the code
  MaxRequired,          \* 15 in the code
  MaxFailures           \* bound: revocations and changes of an issuer

ASSUME RegistriesAssumption ==
  /\ NoIdentity \notin Identities
  /\ {MaxTopicsOfIssuer, MaxIssuers, MaxRequired, MaxFailures} \subseteq Nat

VARIABLES
  trustedIssuers,   \* _trustedIssuers
  issuerTopics,     \* _trustedIssuerClaimTopics
  topicIssuers,     \* _claimTopicsToTrustedIssuers
  claimTopics,      \* _claimTopics of ClaimTopicsRegistry
  identity,         \* _identities of the storage
  claims,           \* _claims of each identity, by issuer and topic, as they stand with the issuer
  mode,             \* what an issuer does when it is asked for a claim that it has not revoked
  failures          \* how many of them failed, against the bound

issuerVars == <<trustedIssuers, issuerTopics, topicIssuers>>
claimVars == <<claims, mode, failures>>
vars == <<issuerVars, claimTopics, identity, claimVars>>

(* The lists of topics that an issuer may be given; the code lets a topic    *)
(* occur twice.                                                             *)
TopicLists == UNION {[1 .. n -> Topics] : n \in 1 .. MaxTopicsOfIssuer}

IsTrusted(issuer) == issuerTopics[issuer] # <<>>

(* Mutant: the last entry is dropped and not moved.                         *)
LastDropped(list, x) == IF x \in ToSet(list) THEN Front(list) ELSE list

(* The array without its first x: the last entry takes its place.           *)
SwapRemoved(list, x) ==
  IF x \in ToSet(list)
  THEN LET first == CHOOSE n \in DOMAIN list :
                      list[n] = x /\ \A m \in 1 .. n - 1 : list[m] # x
       IN  Front([list EXCEPT ![first] = Last(list)])
  ELSE list

(* The index by topic after each of the first n topics: an issuer is added   *)
(* to, or removed from, the list of each.                                   *)
Changed(list, issuer, add) == IF add THEN Append(list, issuer) ELSE SwapRemoved(list, issuer)

ChangedUpTo(index, issuer, topics, add) ==
  LET after[n \in 0 .. Len(topics)] ==
        IF n = 0 THEN index
        ELSE [after[n - 1] EXCEPT ![topics[n]] = Changed(after[n - 1][topics[n]], issuer, add)]
  IN  after

(* The index without, and with, an issuer under each of its topics.          *)
Unlisted(index, issuer, topics) == ChangedUpTo(index, issuer, topics, FALSE)[Len(topics)]

Listed(index, issuer, topics) == ChangedUpTo(index, issuer, topics, TRUE)[Len(topics)]
-----------------------------------------------------------------------------
(* The owner of the registries.                                            *)

AddTrustedIssuer(issuer, topics) ==
  /\ ~IsTrusted(issuer)
  /\ Len(trustedIssuers) < MaxIssuers
  /\ trustedIssuers' = Append(trustedIssuers, issuer)
  /\ issuerTopics' = [issuerTopics EXCEPT ![issuer] = topics]
  /\ topicIssuers' = Listed(topicIssuers, issuer, topics)
  /\ UNCHANGED <<claimTopics, identity, claimVars>>

RemoveTrustedIssuer(issuer) ==
  /\ IsTrusted(issuer)
  /\ trustedIssuers' = SwapRemoved(trustedIssuers, issuer)
  /\ topicIssuers' = Unlisted(topicIssuers, issuer, issuerTopics[issuer])
  /\ issuerTopics' = [issuerTopics EXCEPT ![issuer] = <<>>]
  /\ UNCHANGED <<claimTopics, identity, claimVars>>

UpdateIssuerClaimTopics(issuer, topics) ==
  /\ IsTrusted(issuer)
  /\ topicIssuers' = Listed(Unlisted(topicIssuers, issuer, issuerTopics[issuer]), issuer, topics)
  /\ issuerTopics' = [issuerTopics EXCEPT ![issuer] = topics]
  /\ UNCHANGED <<trustedIssuers, claimTopics, identity, claimVars>>

(* Mutant: a topic that is required already is required once more.          *)
AddClaimTopicAgain(topic) ==
  /\ Len(claimTopics) < MaxRequired
  /\ claimTopics' = Append(claimTopics, topic)
  /\ UNCHANGED <<issuerVars, identity, claimVars>>

AddClaimTopic(topic) ==
  /\ Len(claimTopics) < MaxRequired
  /\ topic \notin ToSet(claimTopics)
  /\ claimTopics' = Append(claimTopics, topic)
  /\ UNCHANGED <<issuerVars, identity, claimVars>>

RemoveClaimTopic(topic) ==
  /\ claimTopics' = SwapRemoved(claimTopics, topic)
  /\ UNCHANGED <<issuerVars, identity, claimVars>>

(* The agents of the identity registry.                                    *)
RegisterIdentity(wallet, id) ==
  /\ identity[wallet] = NoIdentity
  /\ identity' = [identity EXCEPT ![wallet] = id]
  /\ UNCHANGED <<issuerVars, claimTopics, claimVars>>

UpdateIdentity(wallet, id) ==
  /\ identity[wallet] # NoIdentity
  /\ identity' = [identity EXCEPT ![wallet] = id]
  /\ UNCHANGED <<issuerVars, claimTopics, claimVars>>

DeleteIdentity(wallet) ==
  /\ identity[wallet] # NoIdentity
  /\ identity' = [identity EXCEPT ![wallet] = NoIdentity]
  /\ UNCHANGED <<issuerVars, claimTopics, claimVars>>

(* Investors and issuers.  addClaim asks the issuer, and replaces a claim of *)
(* the same issuer and topic.                                               *)
AddClaim(id, issuer, topic) ==
  /\ mode[issuer] = "signs"
  /\ claims' = [claims EXCEPT ![id][issuer][topic] = "signed"]
  /\ UNCHANGED <<issuerVars, claimTopics, identity, mode, failures>>

RemoveClaim(id, issuer, topic) ==
  /\ claims[id][issuer][topic] # "none"
  /\ claims' = [claims EXCEPT ![id][issuer][topic] = "none"]
  /\ UNCHANGED <<issuerVars, claimTopics, identity, mode, failures>>

(* revokeClaim: the claim stays with the identity.                          *)
RevokeClaim(id, issuer, topic) ==
  /\ failures < MaxFailures
  /\ claims[id][issuer][topic] = "signed"
  /\ claims' = [claims EXCEPT ![id][issuer][topic] = "revoked"]
  /\ failures' = failures + 1
  /\ UNCHANGED <<issuerVars, claimTopics, identity, mode>>

(* An issuer takes its signing key back, so that its signatures are not its  *)
(* own any more, or its contract begins to revert.                          *)
IssuerFails(issuer, how) ==
  /\ failures < MaxFailures
  /\ mode[issuer] = "signs"
  /\ mode' = [mode EXCEPT ![issuer] = how]
  /\ failures' = failures + 1
  /\ UNCHANGED <<issuerVars, claimTopics, identity, claims>>

-----------------------------------------------------------------------------
(* isVerified.                                                             *)

(* isClaimValid of the issuer, for a claim that the identity has.           *)
Answer(id, issuer, topic) ==
  IF mode[issuer] = "signs" THEN claims[id][issuer][topic] = "signed" ELSE FALSE

HasClaim(id, issuer, topic) == claims[id][issuer][topic] # "none"

(* Mutant: a claim that is not the last is not asked about.                 *)
FoundLastOnly(id, topic, issuers) ==
  Answer(id, Last(issuers), topic) /\ HasClaim(id, Last(issuers), topic)

(* The loop over the issuers of a topic: a valid claim ends it, and so does  *)
(* the last issuer if its claim is missing, invalid, or reverts.            *)
Found(id, topic, issuers) ==
  LET scan[j \in DOMAIN issuers] ==
        IF HasClaim(id, issuers[j], topic) /\ Answer(id, issuers[j], topic) THEN TRUE
        ELSE IF j = Len(issuers) THEN FALSE ELSE scan[j + 1]
  IN  scan[1]

IsVerified(wallet) ==
  LET id == identity[wallet]
  IN  /\ id # NoIdentity
      /\ \A n \in DOMAIN claimTopics :
           LET issuers == topicIssuers[claimTopics[n]]
           IN  issuers # <<>> /\ Found(id, claimTopics[n], issuers)
-----------------------------------------------------------------------------
Init ==
  /\ trustedIssuers = <<>>
  /\ issuerTopics = [issuer \in Issuers |-> <<>>]
  /\ topicIssuers = [topic \in Topics |-> <<>>]
  /\ claimTopics = <<>>
  /\ identity = [wallet \in Wallets |-> NoIdentity]
  /\ claims = [id \in Identities |-> [issuer \in Issuers |-> [topic \in Topics |-> "none"]]]
  /\ mode = [issuer \in Issuers |-> "signs"]
  /\ failures = 0

OwnerStep ==
  \/ \E issuer \in Issuers, topics \in TopicLists :
       AddTrustedIssuer(issuer, topics) \/ UpdateIssuerClaimTopics(issuer, topics)
  \/ \E issuer \in Issuers : RemoveTrustedIssuer(issuer)
  \/ \E topic \in Topics : AddClaimTopic(topic) \/ RemoveClaimTopic(topic)

AgentStep ==
  \/ \E wallet \in Wallets, id \in Identities : RegisterIdentity(wallet, id) \/ UpdateIdentity(wallet, id)
  \/ \E wallet \in Wallets : DeleteIdentity(wallet)

ClaimStep ==
  \/ \E id \in Identities, issuer \in Issuers, topic \in Topics :
       \/ AddClaim(id, issuer, topic)
       \/ RemoveClaim(id, issuer, topic)
       \/ RevokeClaim(id, issuer, topic)
  \/ \E issuer \in Issuers, how \in {"unkeyed", "reverts"} : IssuerFails(issuer, how)

Next == OwnerStep \/ AgentStep \/ ClaimStep

Spec == Init /\ [][Next]_vars
-----------------------------------------------------------------------------
(* Properties.                                                             *)

RegistriesTypeOK ==
  /\ trustedIssuers \in Seq(Issuers) /\ Len(trustedIssuers) <= MaxIssuers
  /\ issuerTopics \in [Issuers -> TopicLists \cup {<<>>}]
  /\ topicIssuers \in [Topics -> Seq(Issuers)]
  /\ claimTopics \in Seq(Topics) /\ IsInjective(claimTopics) /\ Len(claimTopics) <= MaxRequired
  /\ identity \in [Wallets -> Identities \cup {NoIdentity}]
  /\ claims \in [Identities -> [Issuers -> [Topics -> {"none", "signed", "revoked"}]]]
  /\ mode \in [Issuers -> {"signs", "unkeyed", "reverts"}]
  /\ failures \in 0 .. MaxFailures

Occurrences(list, x) == Cardinality({n \in DOMAIN list : list[n] = x})

(* The three records of the trusted issuers agree, whatever was added,       *)
(* updated and removed and however the arrays were reordered: an issuer is   *)
(* listed once if it has topics, and under each topic as often as it has it. *)
IssuerIndexesAgree ==
  \A issuer \in Issuers :
    /\ Occurrences(trustedIssuers, issuer) = (IF IsTrusted(issuer) THEN 1 ELSE 0)
    /\ \A topic \in Topics :
         Occurrences(topicIssuers[topic], issuer) = Occurrences(issuerTopics[issuer], topic)

(* A wallet is verified exactly if for each required topic its identity      *)
(* holds a claim, not revoked, of an issuer who still signs for it and is    *)
(* trusted, today, with that topic.  (hasClaimTopic answers for the issuer;  *)
(* isVerified goes by the topic.)                                           *)
VerifiedByTrustedIssuers ==
  \A wallet \in Wallets :
    IsVerified(wallet) <=>
      /\ identity[wallet] # NoIdentity
      /\ \A topic \in ToSet(claimTopics) : \E issuer \in ToSet(trustedIssuers) :
           /\ topic \in ToSet(issuerTopics[issuer])
           /\ claims[identity[wallet]][issuer][topic] = "signed"
           /\ mode[issuer] = "signs"
=============================================================================
