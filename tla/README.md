# A specification of libcrux-iot

TLA+ models of libcrux-iot (https://github.com/celabshq/libcrux-iot): the hash
functions from the lanes of Keccak to the incremental XOF, ML-KEM and ML-DSA from
their byte encodings and transforms to key exchange, signing and verification, and
the demo protocol that a host program with its dashboard and an STM32 board run
over a USB serial line.  `PROJECT.json` lists the components, the TLC runs with the
properties each checks, the source lines every definition stands for, the hazards
the properties are aimed at, the theorems and what was found.  Source paths below
are relative to the repository's root.

## The system

| Part | Source | State it keeps | Operations | What makes it hard |
|---|---|---|---|---|
| Keccak permutation | `libcrux-iot/sha3/src/keccak.rs` 245-2577 | 25 lanes of two interleaved 32-bit words, in some builds a round counter | `keccakf1600`, 4 rounds in place at a time | lanes and their halves move after every round |
| Sponge state | `sha3/src/{state,lane}.rs` | the lanes | interleave and deinterleave, load and store a block or a part of one | bits spread over two words, rows and columns, slices that end inside a lane |
| Sponge, one-shot and unbuffered XOFs | `keccak.rs` 2580-2713, `lib.rs` | Keccak state | absorb a block, pad, squeeze first/next/three/five blocks | who permutes before storing |
| Incremental XOF | `keccak.rs` 12-242, `lib.rs` 386-488 | state, a one-block buffer, its fill, a flag | `new`, `absorb`, `absorb_final`, `squeeze` | input and output cut anywhere |
| ML-KEM transforms and products | `ml-kem/src/{ntt,invert_ntt,matrix,polynomial}.rs`, `vector/portable/ntt.rs` | an index into the zetas, accumulators, a cache | NTT and its inverse, accumulated products | nothing is reduced unless the code does it; a running index |
| ML-KEM compression and encodings | `ml-kem/src/serialize.rs`, `vector/portable/{compress,serialize}.rs` | slices written in place | packers of 1 to 12 bits, compress, decompress | division by multiplication, hand-written shifts |
| ML-KEM samplers | `ml-kem/src/{sampling,matrix}.rs` | per-lane counters, scratch arrays | rejection sampling, centred binomial | lanes finishing at different times |
| ML-KEM encryption and KEM | `ml-kem/src/{ind_cpa,ind_cca,matrix}.rs` | accumulators and a cache shared by calls | key generation, encapsulation, decapsulation, key validation | scratch reuse, implicit rejection in constant time |
| ML-DSA transforms and products | `ml-dsa/src/{ntt,matrix}.rs`, `simd/portable/{ntt,invntt}.rs` | elements in place | unrolled butterflies, products, reductions | room of 32 bits, reductions left to the callers |
| ML-DSA encodings | `ml-dsa/src/encoding/`, `simd/portable/encoding/` | slices | packers of 3 to 20 bits, chains of splits | one length in the wrong place with some parameter sets |
| ML-DSA samplers | `ml-dsa/src/{sample,samplex4}.rs` | per-lane counters and flags, shared arrays | matrix, errors, masks, challenge | four lanes, arrays left over from the batch before |
| ML-DSA signing | `ml-dsa/src/ml_dsa_generic.rs` 139-372 | attempt, separator, three Options, the caller's buffer | the rejection loop, `serialize` | no early return; bound on attempts |
| ML-DSA verification | `ml_dsa_generic.rs` 380-651, `encoding/signature.rs` | cursor over the hint section | `deserialize` or row by row (`stack`) | one accepted encoding, two builds |
| ML-DSA message representative | `ml_dsa_generic.rs` 655-900, `pre_hash.rs` | what the XOF has absorbed | plain and pre-hashed signing and verification | one message, context and kind per signature |
| ML-DSA rounding | `simd/portable/arithmetic.rs` | none | `power2round`, `decompose`, `make_hint`, `use_hint` | approximate division, corner cases |
| Demo host: pinger | `demo_host/src/main.rs` | `AppState` behind a lock, the serial port | `signed_ping` | timeouts, panics in a task, restarts |
| Demo host: dashboard | `main.rs` 380-475 | a broadcast channel, two tasks per page | reports to pages, commands from them | lagging readers, two tasks and a `select!` |
| Demo client | `demo_client/src/bin/demo_client.rs` | buffers of the request being read | `echo` under a connection loop | framing without markers, unplugging |
| Extracted C | `c/` | as the Rust | as the Rust | four bundles, of different revisions and unrollings |
| Measuring and test support | `libcrux-iot-testutil`, `libcrux-nucleo-l4r5zi`, `libcrux-testbench`, `m4-cycle-model`, `libcrux-iot-binary-size`, `sys/pqm4` | counters | benchmark and event logging | not part of the product |
| Proof artefacts | `fstar-helpers`, `proofs`, KATs | - | - | not source |

How they interact.  ML-KEM and ML-DSA call the XOFs through
`hash_functions.rs`, always in the order absorb, absorb_final, squeeze.  The demo
host signs a fresh ML-KEM public key and the dashboard's payload with ML-DSA,
writes length prefix, payload and signature to the serial line in USB packets,
and reads a fixed-size answer; the client verifies, encapsulates and answers.
The dashboard's tasks change the payload and the failure switch in the state that
the pinger takes a snapshot of, and show its reports.  Concurrency is between those
two programs, inside the host between tasks, and on the line; everything inside the
cryptographic crates is sequential, and what is hard there is where input, output
and scratch memory are cut, which counters carry over, and the numeric edges.

The C.  `c/` holds the same code extracted to C in four bundles: of the sha3
crate, of ML-KEM, of ML-DSA, and of both schemes combined.  Most functions of the
arithmetic are mapped to the C, where generic code is written out for one set of
parameters, and to the copy of one bundle, as the others have the same text.  The
bundles are of different revisions (`code_gen.txt` in each), and where they differ
each copy is followed: the four `keccakf1600`, the sponge's functions for each rate
and delimiter (two bundles gather a block's lanes before they XOR them), the two
tables of ML-DSA's zetas, and the six instances of ML-DSA's parameter sets.

## Modules

### Hash functions

- `KeccakLanes`, `KeccakUnrolled`, `KeccakMlDsa`, `KeccakCombined` - the tables of
  the four copies: which slots each function reads and overwrites, its rotations,
  its round constant.
- `KeccakSpec` - one round of Keccak-f[1600], as FIPS 202 has it, on words that are
  formulas: a word is the set of the terms it is the XOR of.
- `KeccakF` - `keccakf1600` function by function in each copy.  Before each round
  the words of the state are named after the lanes they should be, so every round
  is followed for arbitrary contents.  Its theorem is at its end.
- `LaneBits` - what loading and storing do with every bit: a word is a set of
  pairs of a position and the name of an unknown bit (`BitPacking`).  One record per
  compiled instance has the sizes written out in it: of blocks, of loads and
  stores, the delimiter, the byte the padding ends in.
- `Sponge` - blocks, padding, the one-shot `keccak` and the unbuffered squeezes.
  The permutation is a free function: a Keccak state is the sequence of blocks
  permuted into it, and a byte of output the pair of state and place, so two
  outputs are equal exactly when the same bytes of the same stream were read.
- `XofSpec` - what the `Xof` trait promises: the stream of the concatenation.
- `KeccakXof` - `KeccakXofState<RATE>` with the locals of the call in progress,
  one action per pass of each loop (`Enter`/`fill_buffer`, `AbsorbBlock`,
  `BufferRest`, `FinalBlock`, `Squeeze`, `SqueezeBlock`, `SqueezeLast`).  The
  guards allow the calls in the order the trait documents.  Its properties include
  the comparison with the unbuffered squeezes.
- `MCKeccakXof` - instances.
- `KeccakXof_proofs` - theorems.

### What both schemes share

- `BitPacking` - words of unknown bits, for `LaneBits` and the encodings.
- `Encodings` - encoding an object (key, ciphertext, message, signature, hashed
  commitment) one element at a time and decoding it where its receiver looks;
  `MlKemEncoding` and `MlDsaEncoding` have the packers and the layouts.  An ML-DSA
  object is written by one bundle and read by either.
- `Transforms` - callers of the transforms of both schemes, and what a row of a
  product must be; `MlKemNtt` and `MlDsaNtt` have the layers.
- `LaneSampling` - what the rejection samplers share; `MlKemSampling`,
  `MlDsaSampling` and `Challenge` have the samplers.  `Sampling` composes them, and
  has its theorems at its end.
- `MCArithmetic` - `Rounding`, `MlKemCompress`, `Encodings`, `Transforms`,
  `LaneBits` and `MessageBinding` side by side, for TLC: a behaviour belongs to one
  of them.

Elements in `Transforms` are the residues of 256 coefficients and a bound on their
absolute values for the worst inputs.  A Montgomery product is modelled by what it
does: its residue gets the factor 1/R and its bound is |ab|/2^32 + q/2 + 1 (ML-KEM's
16-bit one likewise); `barrett_reduce` asks for arguments within 28296.  Inputs are
monomials, whose products are monomials that are known in advance; all operations
are linear in each input, so a wrong zeta, index or factor shows in a monomial that
meets it.

In `LaneSampling` a candidate is its seed and its number among those its stream
accepts; which candidates a byte string holds is not modelled, and a group of
candidates yields any number of accepted ones.

### ML-KEM

- `RingElement` - ring elements as formal sums of products of what was sampled,
  with what the code keeps implicit: whether the coefficients are in the NTT
  domain, and times which powers of Montgomery's R and of 128.  An operation
  given the wrong kind leaves a value no later step can make sense of, so a
  missing transform or factor is a wrong secret, not a type error.
- `MlKem` - `generate_keypair`, `encapsulate` and `decapsulate` of `ind_cca.rs`
  with the functions under them, for ML-KEM and for Kyber: one action per stage,
  and one per row of the matrix, where the accumulator and the cache live.  Keys
  and ciphertext pass from call to call intact or changed in one part; the checks
  of keys are the caller's, as `ind_cca.rs` 31-32 has it, and are made before the
  call (`ReceivePublicKey`, `ReceiveCiphertext`).
- `MlKemCompress` - compression along one coefficient, for each number of bits.
- `MlKem_proofs` - theorems.

Hashes and samplers are free functions in `MlKem`, so distinct inputs have distinct
outputs.  Compression adds an unknown rounding error, and a message decodes when
what is beside it is a sum of products of two small elements: that such a sum is
below the bound with all but negligible probability is the scheme's own argument,
not the code's, and decoding failures are left out with it.

### ML-DSA

- `HintSpec` - the hint section of a signature: which byte strings are the
  encoding of a hint, and of which.
- `VerifySpec` - the verdict: accepted if the encoding is canonical, the
  responses bounded and the hashes equal; otherwise refused for a reason that
  holds.
- `Verify` - `verify_internal` in both builds, one step per position or row of
  the hint section and per column of the response.
- `Sign` - the context check, the rejection loop, `sample_mask_vector`'s separators,
  the Options, the end of the loop, and `serialize` one coefficient at a time.
- `Rounding` - the numbers along one coefficient: the key's split, the
  commitment's decomposition, the hint and its use.
- `MessageBinding` - a signing and a verifying call, plain or pre-hashed, down to
  what the XOF absorbs; the XOF is as `XofSpec` has it, and collides with nothing.
- `Sign_proofs`, `Verify_proofs`, and, of `Rounding`, `MlKemCompress`,
  `MessageBinding` and `Transforms`, `Arithmetic_proofs` - theorems.

Ring arithmetic is a free choice of outcome in `Verify` and `Sign`; `Rounding`
takes the values of c*s2 and c*t0 as they come out of `invert_ntt_montgomery`,
centred (their representatives are at most q/2 + 10494, and the norms bound them
by far less), and those of A*z - c*t1*2^d in either representative.

### Demo

- `DemoLink` - packets in each direction, whether the port is open and the device
  attached, what closing and unplugging drop.  The tty and the endpoints are
  external, modelled from how the programs use them.
- `DemoHost` - `signed_ping` from the snapshot to the report, the two dashboard
  commands, and the ways the task ends (port timeout, I/O error, a killed
  program), with restart.
- `DemoClient` - `echo`: prefix, payload and signature packet by packet,
  verification, encapsulation, the answer and its packet of no bytes;
  disconnection at every await.
- `KeyExchange` - the exchange as the demo's README tells it.
- `Demo` - the composition, its fairness and its properties.
- `Demo_proofs` - theorems, of the two programs and of the dashboard.
- `DashboardFeed` - what a page is promised: every report from its connection on,
  in order and without a gap, until it is closed or too far behind.
- `Dashboard` - the broadcast channel, each page's two tasks, the `select!` that
  waits for either and aborts the other, and the page's end of the socket.

What the control depends on is assumed of the sizes, which are scaled down for TLC:
the ciphertext is a whole number of packets (so the branch of `demo_client.rs`
344-349 for a remainder is dead), the signature is not (3309 is 51 packets and 45
bytes), the u16 prefix has room for what the client can take and for a signature and
two packets.  The length of a payload is the dashboard's: the client's slice panics
for one beyond its buffer, before it looks at what the packet completes, and the
prefix wraps for one beyond its 16 bits.  `flush` is not a step: it waits for the kernel to hand over
what the following reads wait for anyway.  The `timeout` around the async block
that has no await cannot fire, and its `todo!()` is not reachable.

## Runs

| Run | Bounds | Shows |
|---|---|---|
| `xof` | RATE 3, up to 9 bytes, every binary string of up to 4 and one of each longer length per call, squeezes of 0, 1, 3, 4 and 7 bytes begun below 2 used blocks | nothing is lost, repeated or out of bounds; refinement of the stream |
| `keccakf` | each of the four copies, all 24 rounds, two calls | every round is Keccak's on any words, with its own constant; layout and counter are as the next call needs them |
| `sampling` | 3 coefficients, groups of 2, 2 groups in the first block and 1 in the next, batches of 3 lanes, matrices of 2 and 3 rows; a challenge of 3 ones among 6 | the first accepted candidates of the right seed; no write out of bounds; sampling ends; the challenge is FIPS 204's |
| `arithmetic` | coefficients at the ends and the middle of every high part for both GAMMA2; all of -3328..3328 for compression; rank 4 and matrices of 2 by 7; elements of 2 units; every sponge instance; bytes below 3 and contexts of up to 3 | rounding, compression, encodings, transforms, loading and storing, and what is signed, are right |
| `mlkem` | rank 3, ML-KEM and Kyber, 2 messages, 3 public keys, 5 private keys and 5 ciphertexts received | one secret exactly when nothing that counts was changed; implicit rejection otherwise; no noise sampled twice |
| `mldsa_verify` | every hint section of 5 bytes below 5 for 2 rows and at most 3 ones, 2 columns | both builds implement `VerifySpec`; one encoding per hint |
| `mldsa_sign` | 3 attempts, masks of 6, every hint of 2 rows of 4, separators modulo 18 = 3 * 6 | fresh masks, first acceptance wins, canonical hint |
| `mldsa_sign_reused_buffer` | the same, any old contents | violation: the signature of `sign_mut` may be refused |
| `demo` | 3 pings, 3 commands, payloads that fit, no faults | progress, refinement of `KeyExchange` |
| `demo_faults` | 3 pings, a kill, two restarts, an unplugging, timeouts, payloads too long for the client and for the prefix | one secret per request, quiet line, agreed unless interrupted |
| `demo_restart` | 3 pings, a restart, late answers | violation: host and client report different secrets |
| `dashboard` | one page, a channel of 2, a connection of 2, 7 reports, 2 commands | refinement of `DashboardFeed`; a connection that ends ends whole |

Why the bounds are enough.  In `xof` one call can fill a started buffer, run the
block loop twice and leave a rest, and two further calls can follow; the code
never looks at a byte.  In `keccakf` words are arbitrary and the second call finds
what the first leaves.  In `sampling` an element may be full in the middle of a
group, in the middle of a block and at its end, lanes may be done blocks apart,
and the last batch may be partial.  In `arithmetic` a bit, a monomial and a byte stand
for all of their kind, all seven columns and all eight rows of the largest ML-DSA
matrix have their place in the encodings, and both encoded units show where the
next begins.  Sponge slices are cut at each byte of the first lanes and of the last.
In `mlkem` rank 3 has a first row, a middle one and a
last one (2 and 4 were tried too), and each part of each message is changed both by
a little, so that it still decrypts, and beyond repair.  In `mldsa_verify` COEFFS
exceeds OMEGA + 1 so that a count can be too large, both rows can be empty or full,
and every malformed section of that size is tried.  In `mldsa_sign` the last attempt
of three may be the accepted one, and U16 is exactly what the masks need, as 814 * 7
is below 2^16.  In `demo` three pings let the remains of one meet the next and the
one after it.  In `dashboard` one page is enough because pages share nothing but
the channel's count, and seven reports overrun the page, its task and the channel.

Deadlock is not checked: every model stops when its bounded work is done, or its
one call returns; `demo`, `dashboard` and `sampling` check progress instead.

Fairness.  `FairSpec` of `Demo` is weakly fair to the pinger's own steps and to
`echo`'s: the first is a task of a multi-threaded runtime that nothing but its own
calls can block, the second is polled by the board's executor when an endpoint
wakes it.  `Dashboard` is weakly fair to each task of a page, to its `select!`, to
the runtime's dropping of a task that was aborted, and to an open page's reading.
`Sampling` is weakly fair to the caller's own steps, with streams that reject
only so often (`Patience`).  Commands, faults, kills, restarts and a page's coming
and going are never owed.

## Proved

By TLAPS, for every value of the constants, from the named assumptions of the
modules alone; each names what it is about in the comment before it.

`KeccakXof_proofs`: `TypeCorrect`, `InputIntact`, `InBounds` (TypeOK,
NothingLostOrRepeated, SlicesInBounds), `OutputFresh` (no squeeze repeats output of
an earlier one), `OneShot` (the first squeeze is the one-shot hash of all that was
absorbed), `Unbuffered` (the unbuffered squeezes of three and five blocks give the
same stream) and `Refinement` (`KeccakXof` implements `XofSpec`), for every RATE,
DELIM, set of bytes, of inputs and of squeeze lengths and every bound.  `IInv` joins
the three invariants with `CallInv` (what a call in progress has consumed and which
block it is at), `SqueezeInv` (what `out` holds is the stream from the block after
those used, and the state is that block's) and `StreamInv` (after absorb_final the
state is the one-shot sponge's state of the whole input, permuted once per used
block, and the flag says whether one is used).  None of the checked invariants is
inductive alone: that a squeeze is fresh needs to know what the state is relative to
`used`, which needs that the padded block was the right one, which needs the
buffer's contents.

`KeccakF`: `ConstantsRight` (ConstantsInOrder), for any number of calls.  `CounterInv`
gives the counter at every function of a round, and `TablesNameRounds` reads the indices
of the unrolled copy and the lengths of the tables from the four modules of tables.  As a
round names its words anew, what it does depends on the copy and on that index alone: the
two calls that TLC follows stand for all.

`Arithmetic_proofs`: `KeySplitsRight`, `DecompositionRight`, `HintRight` - for all
8,380,417 coefficients in either representative, and every c*s2 and c*t0 within the
code's bounds, where TLC tries the boundaries.  The functions are characterised one
by one (what the approximate division gives, which coefficients are the corner
case); `InputsInv` keeps the inputs in their ranges and `SignerInv` says of which
number the high and the low part at hand are the decomposition.

`Sign_proofs`: `FreshMasks`, `FailsLate`, `AcceptsOnce` and `SignaturesVerify`, for
every number of columns and of attempts whose product the 16-bit separator has room
for, and the last for a buffer that was zeroed.  `LoopInv` ties the separator to
the polynomials sampled and the Options to each other and to the phase.
`EncodingInv` is what `serialize` has written: the ones of the rows before, in
order, are counted by the cursor, and what is behind it is still zero.

`Verify_proofs`: `StaysInBounds`, `Refinement` (both builds implement `VerifySpec`)
and `EncodingUnique`, for every number of rows, columns and ones.  `VInv` says that
the rows decoded are canonical and give the hint so far, and that a defect found is
one.  That no other byte string decodes to the same hint is shown at the first row
and the first position that would differ, as a least element of the natural
numbers.

`CompressionRight`, in the same module: for every factor of ML-KEM and every
coefficient, compression and decompression are FIPS 203's.  The multiplication by
10321340, in halves of twelve bits, is an exact division for all that is
compressed, and the rest is rounding: the message's two masks, the error of a round
trip, and that what was decompressed compresses to itself.

`Binding`, too: a signature verifies only for the kind of call, context and message
it was made for, for all sets of byte strings, an identifier that is not empty and
any width of the byte that a context's length must fit.  What is absorbed can be
taken apart in one way only.

`RangesRight`, also there: RangesKept, for every rank up to 4, every matrix up to 8 by
7, every flow, every input and each copy of ML-DSA's layers.  TLC computes the bounds of
one rank and one matrix; the proof has to say what they may be at any time.  `KemInv`
and `DsaInv` give each element a bound that depends on how far it has come: in ML-DSA,
4250000 per layer passed, 4600000 per product summed, doubled with each layer of the
inverse transform from a reduced row on, which stays below 2^31 only because there are
seven columns at most and `reduce` or one product comes first; in ML-KEM, 3 or 3328
before layer 7 and 2200 more with each layer down to the Barrett reduction, 14000000 per
entry in the accumulator.  That the zetas are small enough is read from the tables in
both bundles (`ExtractedTables`, `CombinedTables`), and the largest of a layer exists as
a least element of the natural numbers (`MaxIn`).

`MlKem_proofs`: `KemInvariant`, and from it `Agrees` and `Rejects` (Agreement,
ImplicitRejection), for ML-KEM and Kyber at ranks 2, 3 and 4, any randomness, and any
of the changes on the way that the models of the calls admit.  The argument goes
from polynomials to calls.

- All that the program computes has coefficients 1 until decryption subtracts, so a
  value is the set of its monomials (`Poly`): a sum of disjoint sets is their union,
  a product of sets that share nothing is the set of the joined monomials.  What a
  row is, summed in the order of the loop and through the cache, follows for each
  rank (`SumIs`, `FillRowIs`, `UseRowIs`): `TSet`, `USet` and `VSet` are the rows of t
  and u, and v.
- Taking s times u from v leaves the message and products of two small elements,
  each matrix product once with each sign (`VCancels`, `WCancels`); with a rounding
  or a secret changed beyond repair something else is left, and nothing is decoded
  (`DecryptsRight`, `DecryptsWrong`).  None of this holds if s and r come from one
  seed; that the coins of an encryption are never the seed of the keys is a
  property of what is hashed for each (`CoinsFresh`).
- Encryptions for two keys or of two messages differ, and each change of a
  ciphertext brings an atom no encryption has (`EncryptionsDiffer`, `ChangeShows`),
  so the comparison at the end of decapsulation is right about all of them.

`KemInv` joins, for the call in progress, what it was started with, what it has
sampled, the rows it has multiplied and the ciphertext it has made (`StartInv`,
`SampleInv`, `RowInv`, `CipherInv`), and, between calls, that keys and ciphertext are
those the program makes, or one of the changes of them that the checks accept
(`WorldInv`).  Neither property is inductive without all of it, as each says
something of the last step only.  `KemInv` was model-checked before it was proved.

`NoiseIsFresh`, in the same module: no two noise polynomials of a call come from one
PRF input.  `NoiseInv` says that the separator of the n-th polynomial sampled is n.

`Sampling`: `InBounds`, `SamplesRight` and `BallRight` (WritesInBounds, FirstAccepted,
ChallengeRight), for every N, group and block size, number of lanes, matrix and
length of the challenge, and every stream.  What TLC leaves to small lanes is that
each lane holds the first candidates of its own seed, whatever the others do:
`MlDsaInv` and `MlKemInv` say so of every lane at every point of a group, with what
the flags then say of the counters and which elements of the matrix are written.
`ShuffleInv` says where each one of the challenge is after the swaps so far.  `Place`
follows it by a recursive equation; that this has a solution is shown at the least
number of bytes for which it would have none.

`Demo_proofs`: `OneSecret`, `Quiet` and `Agreement` (OneSecretPerRequest,
QuietBetweenPings, AgreedUnlessInterrupted), `Halts` (never unplugged, the board
halts only if a payload is too long or the remains of another ping reached it) and
`CarriesOutExchange` (without faults the programs take only the steps of
`KeyExchange`), for packets, keys, signatures and payloads of any length under the
assumptions on sizes above, also payloads that wrap the prefix, and any number of
pings, commands, faults and restarts.  Two arguments carry them.  A secret needs the
first packet of its request's signature, a ticket that is written once and read
once, wherever else the remains of requests end up: `TicketInv` follows the tickets
from the line through the client's buffer to `established`.  And unless a ping was
interrupted, host, line and client together are at one point of one exchange:
`Together` says that nothing is under way (`Clean`), that n packets of the request
have been read and the next are on the line (`Asking`), or that the answer is split
between host, line and client (`Answering`), with the packet of no bytes of the ping
before still on the line.  Neither program knows the other's half, so no smaller
invariant is inductive.  Where the prefix wraps, the client takes packets of the
payload for the signature; as the signature is not a whole number of packets, it
never has exactly one, and its slice panics (`Astray`).  For `CarriesOutExchange`,
`ExchangeInv` adds that nothing interrupts and that secrets are counted as pings.

`FeedsPages`, at the end of the same module: the steps of `Dashboard` are those of
`DashboardFeed`, for any number of pages, any capacity of the channel and of the
connections.  `PagesInv` says of a connected page that what it was shown, what is on
its connection and what its task holds are the reports from its connection on, up to
the last that the task took, and that a task which ended before the page has lagged.

Only model-checked:
- The words of Keccak's rounds (RoundsAreKeccak), encodings, the results of the
  transforms (ProductsRight) and sponge lanes: they have no constant but the sizes of the
  code, and TLC follows them completely, for any bits, words and coefficients, but for
  the number of columns and units above.
- Liveness (`PingsGoOn`, `ConnectionsEnd`, `SamplingEnds`, and the fairness in
  `KeyExchange` and `DashboardFeed`), which is out of the prover's reach.

## Found

- `sign_mut` into a buffer that is not zeroed may produce a signature that
  verification refuses (`mldsa_sign_reused_buffer`).
- A host restarted after a late answer takes it for its own (`demo_restart`).
- `power2round_element` returns t0 = 2^12 for t = 2^12, and for every t that is 2^12
  modulo 2^13, though its comment at `arithmetic.rs` 82-83 says t0 is below 2^(D-1) =
  2^12.  The code is right: it is FIPS 204's `mod±`, and t0's encoding, 2^12 - t0 in 13
  bits, has room for it.  `KeySplits` (run `arithmetic`) says exactly which t reach the
  bound, and `KeySplitsRight` proves it for all of them.
- Seen in the runs with faults, where the properties allow for them: a late answer
  ends the pinger for good (the `unwrap` at `main.rs` 361), and a payload beyond 1024
  bytes halts the board, though the host's README names no limit.
- Not runs: a squeeze of no bytes uses up a block of output, though the caution at
  `squeeze` (`lib.rs` 429) speaks of lengths RATE does not divide; `absorb_final` absorbs all of its argument,
  where its comment at `keccak.rs` 155 says that what is beyond RATE bytes is
  ignored; the log in `demo_client.rs` 282-286 counts from status byte 1..9 and 9..17
  while its comment says 1..10 and 10..18; the host's README starts it with
  `--device` where the program takes its first argument.

## Not modelled

- The centred binomial samplers: functions of 128 or 192 bytes without state,
  symbolic in `MlKem`; and which candidates the bytes of a block hold.
- The 64-bit multiplication inside a Montgomery product, of which the transforms use
  the residue and the bound.
- The order of calls outside the trait's contract: a second `absorb_final`, or an
  absorb after it (`keccak.rs` 164).
- ML-DSA's internal interface for test vectors (feature `acvp`).
- Board and USB set-up, a straight line of I/O; test and benchmark support; the
  proofs in F* and Lean, their helpers, and the known-answer tests.
