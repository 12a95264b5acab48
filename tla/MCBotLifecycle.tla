--------------------------- MODULE MCBotLifecycle ---------------------------
(* One bot, one start command and one stop command, besides the manager's.  *)
EXTENDS BotLifecycle

CONSTANTS bidding, c1, h1

MCOneBot == <<bidding>>
MCOneStarter == {c1}
MCStopper == {h1}
=============================================================================
