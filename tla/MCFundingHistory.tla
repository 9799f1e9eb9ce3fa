-------------------------- MODULE MCFundingHistory --------------------------
(* A CronJob run beside a repair of one coin.                              *)
EXTENDS FundingHistory

CONSTANTS cron, repair, btc, eth

\* Behind the latest hour, and at it.
MCWindows == {<<1, 2>>, <<3, 3>>}
=============================================================================
