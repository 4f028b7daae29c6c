--------------------------- MODULE MCHttpSession ----------------------------
(* Small instances of HttpSession: requests and the longest answers.       *)
EXTENDS HttpSession

One == {1}
OneAnswer == <<2>>
Two == {1, 2}
TwoAnswers == <<2, 0>>
=============================================================================
