----------------------------- MODULE MCHttpClient -----------------------------
(* HttpClient for TLC: two overlapping requests, responses of up to three  *)
(* segments of which two fit.                                              *)
EXTENDS HttpClient

CONSTANTS r1, r2

const_Request == {r1, r2}
===============================================================================
