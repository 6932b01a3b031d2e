----------------------------- MODULE MCHttpReceive -----------------------------
(* An instance of HttpReceive for TLC: up to two header lines, one of them     *)
(* malformed in some responses, in a buffer that the longest header section   *)
(* just fits.                                                                 *)
EXTENDS HttpReceive

HeaderSections ==
    {<<>>, <<"Host">>, <<"Host", "Location">>, <<"Host", "?">>}
===============================================================================
