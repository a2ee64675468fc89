---------------------------- MODULE MCDemoConsole ----------------------------
(* Two tickers, two uploads and two analyses, every tab. *)
EXTENDS DemoConsole
=============================================================================
