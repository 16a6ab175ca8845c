---------------------------- MODULE MCPaperStack ----------------------------
(***************************************************************************)
(* The forward worker, started before another child.                 *)
(***************************************************************************)
EXTENDS PaperStack

CONSTANTS btc, alt, worker, room

MCAssets == {btc, alt}
MCChildren == <<worker, room>>
=============================================================================
