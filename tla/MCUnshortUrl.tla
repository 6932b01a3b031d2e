----------------------------- MODULE MCUnshortUrl -----------------------------
(* An instance of UnshortUrl for TLC: a URL with a tracking field, its clean   *)
(* form and another page.                                                     *)
EXTENDS UnshortUrl, TLC

CONSTANTS tracked, clean, page

CleanedUrls == tracked :> clean @@ clean :> clean @@ page :> page
===============================================================================
