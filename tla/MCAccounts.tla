----------------------------- MODULE MCAccounts -----------------------------
(* The users plugin for TLC: the lockout, passwords, API tokens and the
   directory.  The modules share no state: a behaviour is one of a single part,
   and the others stand still in one of their initial states. *)
EXTENDS LoginLockout, Passwords, ApiTokens, MCDirectory, TLC

VARIABLE part

MCTokenAsks ==
  {[name |-> "x", days |-> 1, scope |-> Unscoped], [name |-> "y", days |-> Never, scope |-> {"jobs"}]}

\* The calls of a token are alike.
MCSymmetry == Permutations(TokenCalls)

MCInit ==
  /\ part \in {"lockout", "passwords", "tokens", "directory"}
  /\ part # "passwords" => must = FALSE
  /\ part # "tokens" => overlap = FALSE /\ gives = TokenPerms
  /\ Init /\ PwInit /\ TokenInit /\ DirInit

MCNext ==
  \/ part = "lockout" /\ Next /\ UNCHANGED <<part, pwvars, tokenVars, dirvars>>
  \/ part = "passwords" /\ PwNext /\ UNCHANGED <<part, vars, tokenVars, dirvars>>
  \/ part = "tokens" /\ TokensNext /\ UNCHANGED <<part, vars, pwvars, dirvars>>
  \/ part = "directory" /\ DirNext /\ UNCHANGED <<part, vars, pwvars, tokenVars>>

accountVars == <<part, vars, pwvars, tokenVars, dirvars>>

MCSpec == MCInit /\ [][MCNext]_accountVars
=============================================================================
