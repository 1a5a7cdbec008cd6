-------------------------- MODULE MCRequestDispatch --------------------------
(* RequestDispatch with the default session and a private one, a fail-closed *)
(* gate, the request rewriter, and the two x402 handlers that change a       *)
(* request, which private sessions exclude (index.js:574-576).               *)
EXTENDS RequestDispatch

MCEventOf(h) ==
  CASE h = "x402-inject" -> "send" [] h = "x402-detect" -> "received" [] OTHER -> "request"

MCApplies(h, s) == h \in {"x402-inject", "x402-detect"} => s # "private"
=============================================================================
