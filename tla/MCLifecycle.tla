----------------------------- MODULE MCLifecycle -----------------------------
(* A small instance of Lifecycle for TLC: the signal handler and one request *)
(* to the API.                                                               *)
EXTENDS Lifecycle

CONSTANTS main, api

TwoCallers == {main, api}
AllModes   == {"SOCKS5", "HTTP", "TPROXY", "REDIRECT", "NFQUEUE"}
RedirectOnly == {"REDIRECT"}
=============================================================================
