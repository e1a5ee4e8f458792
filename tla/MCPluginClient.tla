--------------------------- MODULE MCPluginClient ---------------------------
(***************************************************************************)
(* TLC instances of the plugin.                                            *)
(***************************************************************************)
EXTENDS PluginClient, TLC
=============================================================================
