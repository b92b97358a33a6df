------------------------------ MODULE PrefixCache ------------------------------
(***************************************************************************)
(* The server's prefix cache, as far as the cold benchmarks touch it.  Two *)
(* of their prompts share a prefix if they begin with the same salt or     *)
(* nonce, so that a key is all that matters of a prompt.  The cache        *)
(* outlives the clients.                                                   *)
(***************************************************************************)
EXTENDS Naturals, Sequences

VARIABLES
    cached,        \* keys of which the server holds a prefix
    uuids          \* how many keys have been drawn

cacheVars == <<cached, uuids>>

\* The key of a prompt with neither salt nor nonce.
NoSalt == 0

\* Earlier clients have left prompts without a key, or nothing.
CacheInit ==
    /\ cached \in SUBSET {NoSalt}
    /\ uuids = 0

\* Mutant: a key from a generator with a fixed seed.
SeededKey == 1

\* A uuid or a token that was never drawn before.
FreshKey == uuids + 1

\* A request with key k has been served.
Serve(k) == cached' = cached \cup {k}

CacheTypeOK == uuids \in Nat /\ cached \subseteq Nat

\* No key is cached before it is drawn.
CacheInv == CacheTypeOK /\ \A k \in cached : k <= uuids

=============================================================================
