------------------------------ MODULE MCLimits ------------------------------
(***************************************************************************)
(* Small instances of the limits: an investor with two wallets, one of them  *)
(* an agent of the token, and an exchange.                                  *)
(***************************************************************************)
EXTENDS Limits

CONSTANTS investor, exchange

TwoOfOne == <<investor, investor, exchange>>
OneModule == {{module} : module \in LimitModules}

(* The transfers of a run: the investor and its agent's wallet to the        *)
(* exchange, within the investor's wallets, and the exchange to the investor *)
(* (but with TimeTransfers, where it would be one more investor).           *)
Sends(from, to) ==
  \/ <<from, to>> \in {<<1, 3>>, <<2, 3>>, <<1, 2>>}
  \/ <<from, to>> = <<3, 1>> /\ bound # {TimeTransfers}

FewerNext ==
  \/ \E from, to \in Wallets : Sends(from, to) /\ TransferStep(from, to)
  \/ SettingStep
  \/ Tick

FewerSpec == Init /\ [][FewerNext]_vars /\ WF_vars(Tick)

-----------------------------------------------------------------------------
(* What the documentation says and the code does not do.                     *)

(* ExchangeMonthlyLimitsModule.sol: "Set the limit of tokens allowed to be   *)
(* transferred monthly": a holder's transfer of more than the limit that is  *)
(* set is not counted as let through.                                       *)
MonthlyLimitIsEnforced ==
  [][\A from, to \in Wallets, amount \in Amounts :
       /\ IdentityOf[to] \in limited /\ amount > monthlyLimit[IdentityOf[to]]
       /\ ~Exempt(ExchangeMonthly, from, to)
       => ~(/\ ExchangeMonthly \in bound
            /\ Transfer(from, to, amount, TRUE)
            /\ monthly'[IdentityOf[to]][IdentityOf[from]].value = amount)]_vars
=============================================================================
