----------------------------- MODULE Settlement -----------------------------
(***************************************************************************)
(* What delivery versus delivery promises, without words, ciphertexts or    *)
(* contracts: agreements to exchange an amount of one asset for an amount   *)
(* of another are opened, and each is settled or cancelled, once.  Tokens   *)
(* change hands in a settlement as agreed or not at all, and within the      *)
(* approval that the asset has on record for their owner.  What happens to   *)
(* such a record is up to the asset: a token may make more of it than was     *)
(* ever granted (Allowances).                                               *)
(***************************************************************************)
EXTENDS EncryptedWords, Sequences

CONSTANTS
  Assets, Owners

VARIABLES
  holdings,     \* what each owner has of each asset
  approved,     \* what the asset has on record that settlements may take of each owner
  agreements,   \* all agreements ever opened, in order
  pending       \* the numbers of those that are open

book == <<agreements, pending>>
vars == <<holdings, approved, book>>

(* The maker gives amount1 of asset1 and gets amount2 of asset2.            *)
Agreement == {a \in [maker : Owners, asset1 : Assets, amount1 : Amounts,
                     taker : Owners, asset2 : Assets, amount2 : Amounts] : a.asset1 # a.asset2}

(* amount of an asset passes from one owner to another, if paid.            *)
Passes(h, paid, from, to, amount) ==
  IF paid /\ from # to
  THEN [h EXCEPT ![from] = SubWord(@, amount), ![to] = AddWord(@, amount)]
  ELSE h

CanGive(asset, owner, amount) ==
  amount <= holdings[asset][owner] /\ amount <= approved[asset][owner]

Init ==
  /\ holdings \in [Assets -> [Owners -> Amounts]]
  /\ approved \in [Assets -> [Owners -> Amounts]]
  /\ agreements = <<>>
  /\ pending = {}

Open ==
  /\ Len(agreements') = Len(agreements) + 1
  /\ SubSeq(agreements', 1, Len(agreements)) = agreements
  /\ agreements'[Len(agreements')] \in Agreement
  /\ pending' = pending \cup {Len(agreements')}
  /\ UNCHANGED <<holdings, approved>>

(* Each side is delivered in full or not at all.  What a settlement leaves   *)
(* of an approval is up to the asset.                                       *)
Settle(n) ==
  LET a == agreements[n]
  IN  \E paid1, paid2 \in BOOLEAN :
        /\ paid1 => CanGive(a.asset1, a.maker, a.amount1)
        /\ paid2 => CanGive(a.asset2, a.taker, a.amount2)
        /\ holdings' = [holdings EXCEPT
             ![a.asset1] = Passes(@, paid1, a.maker, a.taker, a.amount1),
             ![a.asset2] = Passes(@, paid2, a.taker, a.maker, a.amount2)]
        /\ pending' = pending \ {n}
        /\ approved' \in [Assets -> [Owners -> Amounts]]
        /\ UNCHANGED agreements

Cancel(n) ==
  /\ pending' = pending \ {n}
  /\ UNCHANGED <<holdings, approved, agreements>>

(* The owners trade, the assets are issued and taken back, approvals are     *)
(* given: but nobody outside a settlement takes from an approval.           *)
Elsewhere ==
  /\ UNCHANGED book
  /\ \/ UNCHANGED approved /\ holdings' \in [Assets -> [Owners -> Amounts]]
     \/ UNCHANGED holdings /\ approved' \in [Assets -> [Owners -> Amounts]]

Next ==
  \/ Open
  \/ \E n \in pending : Settle(n) \/ Cancel(n)
  \/ Elsewhere

Spec == Init /\ [][Next]_vars
=============================================================================
