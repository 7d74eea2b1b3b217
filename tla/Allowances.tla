----------------------------- MODULE Allowances -----------------------------
(***************************************************************************)
(* What an allowance is worth over time: beside the ledger of Token runs a  *)
(* count of what each owner has granted to each spender and the spender has *)
(* not taken yet.  An allowance is a slot that is added to and subtracted   *)
(* from without a check; the count says what IERC20 makes of it, "the       *)
(* remaining number of tokens that the spender will be allowed to spend".   *)
(*                                                                         *)
(* The module adds its two history variables to the operations of Token;    *)
(* what an operation moves, and what it writes, stays the business of Token. *)
(***************************************************************************)
EXTENDS Token

VARIABLES
  granted,      \* history: granted[owner][spender], what is granted and not taken yet
  overdrawn     \* history: the pairs of which more was asked, or taken back, than the
                \* allowance held, since the owner last approved

grantVars == <<granted, overdrawn>>

Grants == {<<w, s>> : w \in Wallets, s \in Spenders}

Grant(owner, spender, amount) ==
  granted' = [granted EXCEPT ![owner] = [granted[owner] EXCEPT ![spender] = amount]]

(* Whatever is asked beyond the allowance wraps around in its slot.         *)
Ask(owner, spender, amount) ==
  overdrawn' = IF amount > allowances[owner][spender]
               THEN overdrawn \cup {<<owner, spender>>}
               ELSE overdrawn

-----------------------------------------------------------------------------
AllowancesInit ==
  /\ Init
  /\ granted = [w \in Wallets |-> [s \in Spenders |-> 0]]
  /\ overdrawn = {}

ApproveCounted(owner, spender, amount) ==
  /\ Approve(owner, spender, amount)
  /\ Grant(owner, spender, amount)
  /\ overdrawn' = overdrawn \ {<<owner, spender>>}

IncreaseCounted(owner, spender, amount) ==
  /\ IncreaseAllowance(owner, spender, amount)
  /\ Grant(owner, spender, granted[owner][spender] + amount)
  /\ UNCHANGED overdrawn

(* No more can be taken back than is granted.                               *)
DecreaseCounted(owner, spender, amount) ==
  LET left == granted[owner][spender]
  IN  /\ DecreaseAllowance(owner, spender, amount)
      /\ Grant(owner, spender, IF amount <= left THEN left - amount ELSE 0)
      /\ Ask(owner, spender, amount)

(* What the owner has lost is taken, which is nothing when the owner is the  *)
(* receiver too.  The allowance is left alone if a module refuses.          *)
TransferFromCounted(spender, from, to, amount, answer) ==
  /\ TransferFrom(spender, from, to, amount, answer)
  /\ Grant(from, spender,
           granted[from][spender] - SubWord(balances[from], balances'[from]))
  /\ IF answer.done THEN Ask(from, spender, amount) ELSE UNCHANGED overdrawn

(* The operations of the token that neither change an allowance nor use one. *)
NothingGranted ==
  /\ \/ \E from, to \in Wallets, amount \in Amounts, answer \in Answers :
          Transfer(from, to, amount, answer)
     \/ AgentStep \/ RegistryStep \/ RoleStep
  /\ UNCHANGED grantVars

GrantStep ==
  \E owner \in Wallets, s \in Spenders, amount \in Amounts :
    \/ ApproveCounted(owner, s, amount)
    \/ IncreaseCounted(owner, s, amount)
    \/ DecreaseCounted(owner, s, amount)
    \/ \E to \in Wallets, answer \in Answers : TransferFromCounted(s, owner, to, amount, answer)

AllowancesNext == GrantStep \/ NothingGranted

AllowancesSpec == AllowancesInit /\ [][AllowancesNext]_<<vars, grantVars>>

-----------------------------------------------------------------------------
(* Properties.                                                             *)

(* The slots stay within the word, what is granted and not taken yet does   *)
(* not: it is a count that no contract keeps.                               *)
GrantsTypeOK ==
  /\ TypeOK
  /\ granted \in [Wallets -> [Spenders -> Int]]
  /\ overdrawn \subseteq Grants

(* Unless more was asked of an allowance, or taken back from it, than it     *)
(* held, the slot holds no more than what is granted and not taken yet:     *)
(* transferFrom charges it with everything that moves (and, when a refusal  *)
(* makes the move zero, with what does not move), and increaseAllowance can *)
(* only lose by wrapping around.                                            *)
AllowanceWithinGrant ==
  \A w \in Wallets, s \in Spenders :
    <<w, s>> \notin overdrawn => allowances[w][s] <= granted[w][s]

(* In such a state no spender, by any number of transferFroms among          *)
(* everything else that happens, takes more than it was granted, not in the  *)
(* step that asks for too much either.                                      *)
GrantsAreKept ==
  [][\A w \in Wallets, s \in Spenders :
       <<w, s>> \notin overdrawn /\ granted'[w][s] # granted[w][s]
         => granted'[w][s] >= 0]_<<vars, grantVars>>

(* IERC20, allowance: "the remaining number of tokens encrypted that        *)
(* `spender` will be allowed to spend on behalf of `owner` through           *)
(* {transferFrom}"; transferFrom: "`value` is then deducted from the         *)
(* caller's allowance".  So a spender takes no more in all than the owner    *)
(* has granted.                                                            *)
GrantNeverOverspent ==
  \A w \in Wallets, s \in Spenders : granted[w][s] >= 0
=============================================================================
