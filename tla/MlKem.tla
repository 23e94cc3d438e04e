------------------------------- MODULE MlKem -------------------------------
(***************************************************************************)
(* ML-KEM: key generation, encapsulation and decapsulation, with the keys and *)
(* the ciphertext on their way from one to the next                          *)
(* (libcrux-iot/ml-kem/src/ind_cca.rs, ind_cpa.rs, matrix.rs, variant.rs,     *)
(* serialize.rs, constant_time_ops.rs).                                     *)
(*                                                                         *)
(* Hashes and samplers are free functions of their input; ring elements are   *)
(* formal (RingElement).  The memory of the call in progress is one set of     *)
(* variables: `factor' is secret_as_ntt or r_as_ntt, `error' error_as_ntt or    *)
(* error_1, and `result' t_as_ntt or u.                                      *)
(***************************************************************************)
EXTENDS RingElement, Sequences

CONSTANTS
  K,            \* rank: 2, 3 or 4
  Variants,     \* which of "MlKem" and "Kyber"
  Randomness    \* what encapsulation may be given for its message

ASSUME KAssumption == K \in 2 .. 4
ASSUME VariantsAssumption == Variants \subseteq {"MlKem", "Kyber"}

Ranks == 0 .. K - 1

VARIABLES
  variant,
  pc,
  call,             \* "generate", "encapsulate" or "decapsulate"
  \* memory of the call
  prf_input, domain_separator, seed_for_A, matrix,
  factor, error, error_2, result, cache, accumulator,
  row,              \* the row of the matrix the loop is at
  public_key, message, shared_secret, ciphertext,
  \* what the calls return and are given
  key_pair,         \* [pk, sk]
  received_pk,      \* the public key as encapsulation got it
  sent,             \* the ciphertext as encapsulation returned it
  received,         \* [sk, ciphertext] as decapsulation got them
  secrets,          \* [encapsulated, decapsulated]
  \* history
  prf_inputs        \* of the polynomials sampled by this call

memory == <<prf_input, domain_separator, seed_for_A, matrix, factor, error, error_2,
            result, cache, accumulator, row, public_key, message, shared_secret,
            ciphertext, prf_inputs>>
world == <<key_pair, received_pk, sent, received, secrets>>
vars == <<variant, pc, call, memory, world>>

None == << >>
ZEROs == [i \in Ranks |-> ZERO]

-----------------------------------------------------------------------------
(* Hashes and the differences between the variants *)

H(x) == <<"H", x>>
G(x) == << <<"G", 0, x>>, <<"G", 1, x>> >>
PRF(x) == <<"PRF", x>>

cpa_keygen_seed(seed) == IF variant = "MlKem" THEN G(<<seed, <<K>>>>) ELSE G(<<seed>>)
entropy_preprocess(randomness) == IF variant = "MlKem" THEN randomness ELSE H(randomness)
kdf(secret, c) == IF variant = "MlKem" THEN secret ELSE PRF(<<secret, H(c)>>)

-----------------------------------------------------------------------------
(* Sampling *)

(* The matrix entry of seed_ij; its coefficients are taken as in the NTT domain. *)
Xof(seed, i, j) == ElementNtt(Atom(<<"xof", seed, i, j>>))

sample_matrix_A(seed, transpose) ==
  [p \in 0 .. K * K - 1 |->
     IF transpose THEN Xof(seed, p % K, p \div K) ELSE Xof(seed, p \div K, p % K)]
entry(A, i, j) == A[i * K + j]

Cbd(input) == Element(Atom(<<"prf", input[1], input[2]>>))

(* K polynomials, of the separators from `separator' on. *)
prf_input_inc(seed, separator) == [i \in Ranks |-> <<seed, separator + i>>]
InOrder(inputs) == [i \in 1 .. K |-> inputs[i - 1]]

-----------------------------------------------------------------------------
(* Public keys, ciphertexts, messages *)

(* serialize_12 of each coefficient's representative below q. *)
serialize_public_key_mut(t_as_ntt, seed) ==
  [t |-> [i \in Ranks |-> Value(t_as_ntt[i], "ntt")], form |-> "reduced", seed |-> seed]

(* Coefficients of q or more are brought below it. *)
deserialize_ring_elements_reduced(pk) == [i \in Ranks |-> ElementNtt(pk.t[i])]

validate_public_key(pk) ==
  pk = serialize_public_key_mut(deserialize_ring_elements_reduced(pk), pk.seed)

validate_private_key(sk) == H(sk.pk) = sk.hash

serialize_kem_secret_key_mut(s, pk, z) == [s |-> s, pk |-> pk, hash |-> H(pk), z |-> z]

(* Compressing loses low bits: what comes back is off by a rounding error. *)
decompress_u(c, i) == Element(Plus(c.u[i], Atom(<<"rounding", "u", i>>)))
decompress_v(c) == Element(Plus(c.v, Atom(<<"rounding", "v", 0>>)))

deserialize_then_decompress_message(m) == Element(Atom(<<"message", m>>))

(* A product of at most two sampled elements or rounding errors, once. *)
Small(p, m) ==
  /\ p[m] \in {-1, 1}
  /\ Cardinality(m) <= 2
  /\ \A a \in m : a[1] \in {"prf", "rounding"}

(* The message in an element that is one plus little; else some other message. *)
compress_then_serialize_message(e) ==
  LET p == Value(e, "normal")
      large == {m \in DOMAIN p : ~Small(p, m)}
      inside == {a \in UNION large : large = {{a}} /\ a[1] = "message" /\ p[{a}] = 1}
  IN IF inside # {} THEN (CHOOSE a \in inside : TRUE)[2] ELSE <<"undecodable", p>>

-----------------------------------------------------------------------------
(* compare, is_non_zero and select_ct on the parts of a ciphertext and on a    *)
(* secret: a byte of difference anywhere selects rhs.                        *)

(* Mutant: only the first part is compared. *)
compare_First(lhs, rhs) == IF lhs.u = rhs.u THEN 0 ELSE 1

compare(lhs, rhs) == IF \A f \in DOMAIN lhs : lhs[f] = rhs[f] THEN 0 ELSE 1

compare_ciphertexts_select_shared_secret_in_constant_time(lhs_c, rhs_c, lhs_s, rhs_s) ==
  LET mask == (compare(lhs_c, rhs_c) + 255) % 256     \* wrapping_sub(1)
  IN IF mask = 255 THEN lhs_s ELSE rhs_s

-----------------------------------------------------------------------------
Init ==
  /\ variant \in Variants
  /\ pc = "generate" /\ call = "none"
  /\ prf_input = None /\ domain_separator = 0 /\ seed_for_A = None /\ matrix = None
  /\ factor = ZEROs /\ error = ZEROs /\ error_2 = ZERO /\ result = ZEROs
  /\ cache = ZEROs /\ accumulator = ZERO /\ row = 0
  /\ public_key = None /\ message = None /\ shared_secret = None /\ ciphertext = None
  /\ key_pair = None /\ received_pk = None /\ sent = None /\ received = None
  /\ secrets = [encapsulated |-> None, decapsulated |-> None]
  /\ prf_inputs = << >>

(* The buffers every call declares for itself. *)
FreshMemory ==
  /\ domain_separator' = 0
  /\ factor' = ZEROs /\ error' = ZEROs /\ error_2' = ZERO /\ result' = ZEROs
  /\ cache' = ZEROs /\ row' = 0
  /\ prf_inputs' = << >>

(* generate_keypair up to the samples, from a seed d and a rejection value z. *)
GenerateKeypair ==
  /\ pc = "generate"
  /\ LET hashed == cpa_keygen_seed(<<"d">>)
     IN /\ seed_for_A' = hashed[1]
        /\ prf_input' = hashed[2]
        /\ matrix' = sample_matrix_A(hashed[1], TRUE)
  /\ FreshMemory
  /\ accumulator' = ZERO
  /\ call' = "generate"
  /\ pc' = "vector"
  /\ UNCHANGED <<variant, public_key, message, shared_secret, ciphertext, world>>

(* sample_vector_cbd_then_ntt, of the secret or of r. *)
SampleVector ==
  /\ pc = "vector"
  /\ LET inputs == prf_input_inc(prf_input, domain_separator)
     IN /\ factor' = [i \in Ranks |-> ntt_binomially_sampled_ring_element(Cbd(inputs[i]))]
        /\ prf_inputs' = prf_inputs \o InOrder(inputs)
  /\ domain_separator' = domain_separator + K
  /\ pc' = "error"
  /\ UNCHANGED <<variant, call, prf_input, seed_for_A, matrix, error, error_2, result,
                 cache, accumulator, row, public_key, message, shared_secret,
                 ciphertext, world>>

(* Mutant: the errors are sampled from the separators of the secret. *)
ErrorSeparator_Again == 0

ErrorSeparator == domain_separator

(* The errors: into the NTT domain for the key, as they are for u. *)
SampleError ==
  /\ pc = "error"
  /\ LET inputs == prf_input_inc(prf_input, ErrorSeparator)
         sampled == [i \in Ranks |-> Cbd(inputs[i])]
     IN /\ prf_inputs' = prf_inputs \o InOrder(inputs)
        /\ IF call = "generate"
             THEN error' = [i \in Ranks |-> ntt_binomially_sampled_ring_element(sampled[i])]
             ELSE error' = sampled
  /\ domain_separator' = domain_separator + K
  /\ pc' = IF call = "generate" THEN "rows" ELSE "error_2"
  /\ UNCHANGED <<variant, call, prf_input, seed_for_A, matrix, factor, error_2, result,
                 cache, accumulator, row, public_key, message, shared_secret,
                 ciphertext, world>>

SampleError2 ==
  /\ pc = "error_2"
  /\ error_2' = Cbd(<<prf_input, domain_separator>>)
  /\ prf_inputs' = Append(prf_inputs, <<prf_input, domain_separator>>)
  /\ pc' = "rows"
  /\ UNCHANGED <<variant, call, prf_input, domain_separator, seed_for_A, matrix, factor,
                 error, result, cache, accumulator, row, public_key, message,
                 shared_secret, ciphertext, world>>

-----------------------------------------------------------------------------
(* The rows of A times the vector: the first fills the cache, others use it. *)

FilledCache == [j \in Ranks |-> CacheOf(factor[j])]

FillRow(entries, base) ==
  LET sum[j \in 0 .. K] ==
        IF j = 0 THEN base
        ELSE accumulating_ntt_multiply(entries[j - 1], factor[j - 1], sum[j - 1])
  IN sum[K]
UseRow(entries, base) ==
  LET sum[j \in 0 .. K] ==
        IF j = 0 THEN base
        ELSE accumulating_ntt_multiply_use_cache(entries[j - 1], factor[j - 1], sum[j - 1], cache[j - 1])
  IN sum[K]

(* The accumulator is not cleared before the first row: it is the caller's. *)
AsPlusE(sum) ==
  /\ accumulator' = sum
  /\ result' = [result EXCEPT
       ![row] = add_standard_error_reduce(reducing_from_i32_array(sum), error[row])]
  /\ row' = row + 1
  /\ pc' = IF row + 1 = K THEN "serialize" ELSE "rows"
  /\ UNCHANGED <<variant, call, prf_input, domain_separator, seed_for_A, matrix, factor,
                 error, error_2, public_key, message, shared_secret, ciphertext,
                 prf_inputs, world>>

FirstRowOfT ==
  /\ pc = "rows" /\ call = "generate" /\ row = 0
  /\ AsPlusE(FillRow([j \in Ranks |-> entry(matrix, 0, j)], accumulator))
  /\ cache' = FilledCache

OtherRowOfT ==
  /\ pc = "rows" /\ call = "generate" /\ row > 0
  /\ AsPlusE(UseRow([j \in Ranks |-> entry(matrix, row, j)], ZERO))
  /\ UNCHANGED cache

(* Mutant: the first row counts on an empty accumulator here too. *)
FirstRowBase_Kept == accumulator

FirstRowBase == ZERO

VectorU(sum) ==
  /\ accumulator' = sum
  /\ result' = [result EXCEPT
       ![row] = add_error_reduce(invert_ntt_montgomery(reducing_from_i32_array(sum)), error[row])]
  /\ row' = row + 1
  /\ pc' = IF row + 1 = K THEN "c1" ELSE "rows"
  /\ UNCHANGED <<variant, call, prf_input, domain_separator, seed_for_A, matrix, factor,
                 error, error_2, public_key, message, shared_secret, ciphertext,
                 prf_inputs, world>>

FirstRowOfU ==
  /\ pc = "rows" /\ call # "generate" /\ row = 0
  /\ VectorU(FillRow([j \in Ranks |-> Xof(seed_for_A, 0, j)], FirstRowBase))
  /\ cache' = FilledCache

OtherRowOfU ==
  /\ pc = "rows" /\ call # "generate" /\ row > 0
  /\ VectorU(UseRow([j \in Ranks |-> Xof(seed_for_A, row, j)], ZERO))
  /\ UNCHANGED cache

-----------------------------------------------------------------------------
(* The ends of the calls *)

(* serialize_unpacked_secret_key, serialize_kem_secret_key_mut *)
SerializeKeys ==
  /\ pc = "serialize"
  /\ LET pk == serialize_public_key_mut(result, seed_for_A)
         s == [i \in Ranks |-> Value(factor[i], "ntt")]
     IN key_pair' = [pk |-> pk, sk |-> serialize_kem_secret_key_mut(s, pk, <<"z">>)]
  /\ pc' = "send_key"
  /\ UNCHANGED <<variant, call, memory, received_pk, sent, received, secrets>>

(* compress_then_serialize_u *)
CompressU ==
  /\ pc = "c1"
  /\ ciphertext' = [u |-> [i \in Ranks |-> Value(result[i], "normal")], v |-> Zero]
  /\ pc' = "c2"
  /\ UNCHANGED <<variant, call, prf_input, domain_separator, seed_for_A, matrix, factor,
                 error, error_2, result, cache, accumulator, row, public_key, message,
                 shared_secret, prf_inputs, world>>

(* encrypt_c2: compute_ring_element_v and compressing it. *)
RingElementV ==
  /\ pc = "c2"
  /\ LET t_as_ntt == deserialize_ring_elements_reduced(public_key)
         sum == UseRow(t_as_ntt, ZERO)
         v == add_message_error_reduce(error_2, deserialize_then_decompress_message(message),
                invert_ntt_montgomery(reducing_from_i32_array(sum)))
     IN /\ accumulator' = sum
        /\ ciphertext' = [ciphertext EXCEPT !.v = Value(v, "normal")]
  /\ pc' = IF call = "encapsulate" THEN "encapsulated" ELSE "decapsulated"
  /\ UNCHANGED <<variant, call, prf_input, domain_separator, seed_for_A, matrix, factor,
                 error, error_2, result, cache, row, public_key, message, shared_secret,
                 prf_inputs, world>>

-----------------------------------------------------------------------------
(* Encapsulation *)

(* The public key as sent, with a coefficient q or more too large, or with    *)
(* another value.                                                            *)
Changed(terms) == Plus(terms, Atom(<<"changed">>))
PublicKeysReceived(pk) ==
  {pk, [pk EXCEPT !.form = "unreduced"], [pk EXCEPT !.t[0] = Changed(@)]}

(* encrypt's arguments, from G's output. *)
StartEncrypt(pk, m, hashed) ==
  /\ public_key' = pk
  /\ message' = m
  /\ shared_secret' = hashed[1]
  /\ prf_input' = hashed[2]
  /\ seed_for_A' = pk.seed
  /\ matrix' = None
  /\ ciphertext' = None
  /\ FreshMemory
  /\ pc' = "vector"

(* The caller checks the key first: encapsulate itself does not.             *)
ReceivePublicKey(pk) ==
  /\ pc = "send_key"
  /\ received_pk' = pk
  /\ pc' = IF validate_public_key(pk) THEN "encapsulate" ELSE "refused"
  /\ UNCHANGED <<variant, call, memory, key_pair, sent, received, secrets>>

(* encapsulate up to encrypt. *)
Encapsulate(randomness) ==
  /\ pc = "encapsulate"
  /\ LET processed == entropy_preprocess(randomness)
     IN StartEncrypt(received_pk, processed, G(<<processed, H(received_pk)>>))
  /\ accumulator' = ZERO
  /\ call' = "encapsulate"
  /\ UNCHANGED <<variant, world>>

FinishEncapsulate ==
  /\ pc = "encapsulated"
  /\ sent' = ciphertext
  /\ secrets' = [secrets EXCEPT !.encapsulated = kdf(shared_secret, ciphertext)]
  /\ pc' = "send_ciphertext"
  /\ UNCHANGED <<variant, call, memory, key_pair, received_pk, received>>

-----------------------------------------------------------------------------
(* Decapsulation *)

Nudged(terms) == Plus(terms, Atom(<<"rounding", "nudge", 0>>))

(* The ciphertext as sent, or a part of it changed by a little or a lot. *)
CiphertextsReceived(c) ==
  {c, [c EXCEPT !.v = Nudged(@)], [c EXCEPT !.v = Changed(@)],
      [c EXCEPT !.u[0] = Nudged(@)], [c EXCEPT !.u[K - 1] = Changed(@)]}

(* The private key as generated, or with one field that is not. *)
PrivateKeysReceived(sk) ==
  {sk, [sk EXCEPT !.s[0] = Changed(@)], [sk EXCEPT !.pk.t[0] = Changed(@)],
       [sk EXCEPT !.hash = <<"changed">>], [sk EXCEPT !.z = <<"changed">>]}

RejectionSecret == PRF(<<received.sk.z, received.ciphertext>>)

(* Again the check of the key is the caller's. *)
ReceiveCiphertext(sk, c) ==
  /\ pc = "send_ciphertext"
  /\ received' = [sk |-> sk, ciphertext |-> c]
  /\ pc' = IF validate_private_key(sk) THEN "decapsulate" ELSE "refused"
  /\ UNCHANGED <<variant, call, memory, key_pair, received_pk, sent, secrets>>

(* decrypt's last element, and the accumulator it leaves. *)
ProductOfU(s, c) ==
  LET sum[i \in 0 .. K] ==
        IF i = 0 THEN ZERO
        ELSE accumulating_ntt_multiply(ElementNtt(s[i - 1]), ntt_vector_u(decompress_u(c, i - 1)),
                                       sum[i - 1])
  IN sum[K]
decrypt(c, product) ==
  compress_then_serialize_message(
    subtract_reduce(decompress_v(c), invert_ntt_montgomery(reducing_from_i32_array(product))))

(* decapsulate up to encrypt, which gets the accumulator decrypt has used. *)
Decapsulate ==
  /\ pc = "decapsulate"
  /\ LET product == ProductOfU(received.sk.s, received.ciphertext)
         decrypted == decrypt(received.ciphertext, product)
     IN /\ StartEncrypt(received.sk.pk, decrypted, G(<<decrypted, received.sk.hash>>))
        /\ accumulator' = product
  /\ call' = "decapsulate"
  /\ UNCHANGED <<variant, world>>

FinishDecapsulate ==
  /\ pc = "decapsulated"
  /\ secrets' = [secrets EXCEPT !.decapsulated =
       compare_ciphertexts_select_shared_secret_in_constant_time(
         received.ciphertext, ciphertext,
         kdf(shared_secret, received.ciphertext),
         kdf(RejectionSecret, received.ciphertext))]
  /\ pc' = "done"
  /\ UNCHANGED <<variant, call, memory, key_pair, received_pk, sent, received>>

Next ==
  \/ GenerateKeypair
  \/ SampleVector \/ SampleError \/ SampleError2
  \/ FirstRowOfT \/ OtherRowOfT
  \/ FirstRowOfU \/ OtherRowOfU
  \/ SerializeKeys
  \/ CompressU \/ RingElementV
  \/ pc = "send_key" /\ \E pk \in PublicKeysReceived(key_pair.pk) : ReceivePublicKey(pk)
  \/ \E r \in Randomness : Encapsulate(<<"randomness", r>>)
  \/ FinishEncapsulate
  \/ pc = "send_ciphertext" /\ \E sk \in PrivateKeysReceived(key_pair.sk),
                                  c \in CiphertextsReceived(sent) : ReceiveCiphertext(sk, c)
  \/ Decapsulate
  \/ FinishDecapsulate

Spec == Init /\ [][Next]_vars

-----------------------------------------------------------------------------
(* Properties *)

(* The encryption's randomness is never stretched into the same polynomial    *)
(* twice: s, e and e_1, e_2 come from different PRF inputs, though the         *)
(* separator is passed through three calls (ind_cpa.rs:285-315, 668-704).      *)
NoiseFresh ==
  \A i, j \in DOMAIN prf_inputs : prf_inputs[i] = prf_inputs[j] => i = j

Intact ==
  /\ [received_pk EXCEPT !.form = "reduced"] = key_pair.pk
  /\ received.ciphertext = sent
  /\ [received.sk EXCEPT !.z = key_pair.sk.z] = key_pair.sk

(* The two sides get the same secret when keys and ciphertext arrive as they   *)
(* were made, and never otherwise: through the transposed matrix, the cache,    *)
(* the accumulator the two halves of decapsulate share, the Montgomery factors, *)
(* the checks of the keys and the re-encryption (ind_cca.rs:263-511).           *)
Agreement ==
  pc = "done" => (Intact <=> secrets.decapsulated = secrets.encapsulated)

(* A ciphertext that is not the encryption of what it decrypts to is answered   *)
(* with a secret of z and the ciphertext alone, whatever came out of decryption *)
(* (implicit rejection, ind_cca.rs:433-511).                                    *)
ImplicitRejection ==
  pc = "done" /\ ~Intact =>
    secrets.decapsulated =
      kdf(PRF(<<received.sk.z, received.ciphertext>>), received.ciphertext)

=============================================================================
