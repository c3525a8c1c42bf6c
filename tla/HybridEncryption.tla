-------------------------- MODULE HybridEncryption --------------------------
(***************************************************************************)
(* HybridEncryptionEngine (core/quantum_layer/crypto_agility/              *)
(* hybrid_schemes.py).  Keys, secrets and nonces are numbers, those of one *)
(* encryption its own; hashes, codes and ciphertexts are the records of    *)
(* what they were computed from, so that two are equal only if made from   *)
(* the same.  Kyber and the ciphers are external.                          *)
(***************************************************************************)
EXTENDS Naturals, Sequences

CONSTANTS
    Levels,          \* NIST levels asked for
    KeyPairs,
    Plaintexts,
    MaxMessages      \* bound on the number of encryptions

VARIABLES
    level,           \* of the engine; 0 when its constructor raised
    sent,            \* what encrypt_hybrid returned, with whom and what it was for
    decrypted        \* what decrypt_hybrid was given and returned

vars == <<level, sent, decrypted>>

Init == level = 0 /\ sent = <<>> /\ decrypted = <<>>

\* A KeyError for a level that is not in the maps.
Construct(l) ==
    /\ level = 0
    /\ l \in 1..3
    /\ level' = l
    /\ UNCHANGED <<sent, decrypted>>

\* GCM is a mode of AES; the library refuses it with ChaCha20.
Encrypts(l) == l \in {1, 3}

Random(n) == [random |-> n]
Derived(secret, dem_key) == [hash |-> <<secret, dem_key>>]
Mac(key, body) == [mac |-> key, of |-> body]
Body(dem_key, nonce, m) == [enc |-> m, key |-> dem_key, nonce |-> nonce]

\* The n-th call: its DEM key, shared secret and nonce are all called n.
EncryptHybrid(pair, m) ==
    LET n == Len(sent) + 1
        body == Body(Random(n), n, m)
    IN  /\ Encrypts(level)
        /\ n <= MaxMessages
        /\ sent' = Append(sent,
                    [kem |-> [for |-> pair, secret |-> n],
                     dem |-> [nonce |-> n, body |-> body],
                     tag |-> Mac(Derived(n, n), body),
                     plaintext |-> m])
        /\ UNCHANGED <<level, decrypted>>

-----------------------------------------------------------------------------
(* decrypt_hybrid has one argument for a ciphertext, which it decapsulates *)
(* and also splits into nonce and body.  Callers pass it the second part   *)
(* of what they got, as the example does, or the first.                    *)

Garbage == [nonce |-> 0, body |-> Body(Random(0), 0, "garbage")]

\* Decapsulation raises for what does not have the size of a KEM ciphertext,
\* and gives another secret, here 0, under another key.
Decapsulates(part) == part = "kem"
Secret(pair, c) == IF c.kem.for = pair THEN c.kem.secret ELSE 0

\* shared_secret + b"": there is no DEM key to add.
DemKey == 0

Verified(key, body, tag) == Mac(key, body) = tag

Return(pair, part, c, d, m) ==
    decrypted' = [pair |-> pair, part |-> part, message |-> c, tag |-> d, result |-> m]

DecryptHybrid(pair, part, c, d) ==
    /\ c \in DOMAIN sent /\ d \in DOMAIN sent
    /\ LET key == Derived(Secret(pair, sent[c]), DemKey)
           piece == IF part = "kem" THEN Garbage ELSE sent[c].dem
       IN  IF Decapsulates(part) /\ Verified(key, piece.body, sent[d].tag)
           THEN Return(pair, part, c, d, IF piece.body.key = key THEN piece.body.enc ELSE "garbage")
           ELSE Return(pair, part, c, d, "None")
    /\ UNCHANGED <<level, sent>>

Next ==
    \/ \E l \in Levels : Construct(l)
    \/ \E pair \in KeyPairs, m \in Plaintexts : EncryptHybrid(pair, m)
    \/ \E pair \in KeyPairs, part \in {"kem", "dem"}, c, d \in 1..MaxMessages :
        DecryptHybrid(pair, part, c, d)

Spec == Init /\ [][Next]_vars

-----------------------------------------------------------------------------
\* "Decryption successful:", as the example prints: what encrypt_hybrid returned
\* is decrypted with the private key of the pair.
RoundTrip ==
    decrypted # <<>> /\ decrypted.message = decrypted.tag
        /\ sent[decrypted.message].kem.for = decrypted.pair /\ decrypted.part = "dem"
    => decrypted.result = sent[decrypted.message].plaintext
=============================================================================
