------------------------------ MODULE TokenStore ------------------------------
(* What the requests of a client promise about its tokens: those that one  *)
(* answer issues together are replaced together, and nothing else is.      *)
EXTENDS Naturals

CONSTANT Answers  \* numbers of the answers that issue tokens

VARIABLES
  login,      \* the access, refresh and user session token
  anonymous,  \* the csrf and the app session token
  challenge   \* the token of a one-time password

vars == <<login, anonymous, challenge>>

(* Tokens are numbered by the answer that issued them, the constructor's   *)
(* are 0.                                                                  *)
Init == login = <<0, 0, 0>> /\ anonymous = <<0, 0>> /\ challenge = 0

Login(n)     == login' = <<n, n, n>> /\ UNCHANGED <<anonymous, challenge>>
Anonymous(n) == anonymous' = <<n, n>> /\ UNCHANGED <<login, challenge>>
Challenge(n) == challenge' = n /\ UNCHANGED <<login, anonymous>>

Next == \E n \in Answers : Login(n) \/ Anonymous(n) \/ Challenge(n)

Spec == Init /\ [][Next]_vars
=============================================================================
