---------------------------- MODULE KeccakLanes -----------------------------
(***************************************************************************)
(* Which words the functions of keccakf1600 touch, in the bundle of the sha3*)
(* crate.  The state is updated in place, four rounds at a time: lanes and  *)
(* their halves lie elsewhere after each round and are back after four.  A  *)
(* slot is a word of st: row i, column j, half zeta, as get_with_zeta(i, j, *)
(* zeta) has it.                                                            *)
(***************************************************************************)
EXTENDS Integers, Sequences

(***************************************************************************)
(* The ten functions theta_c, for each column its halves: which half of the   *)
(* slot in row i is read, for the rows in order.                             *)
(***************************************************************************)
round0_theta_c ==
  <<<<<<0, 0, 0, 0, 0>>, <<1, 1, 1, 1, 1>>>>,
    <<<<0, 0, 0, 0, 0>>, <<1, 1, 1, 1, 1>>>>,
    <<<<0, 0, 0, 0, 0>>, <<1, 1, 1, 1, 1>>>>,
    <<<<0, 0, 0, 0, 0>>, <<1, 1, 1, 1, 1>>>>,
    <<<<0, 0, 0, 0, 0>>, <<1, 1, 1, 1, 1>>>>>>
round1_theta_c ==
  <<<<<<0, 0, 1, 1, 0>>, <<1, 1, 0, 0, 1>>>>,
    <<<<1, 0, 0, 1, 0>>, <<0, 1, 1, 0, 1>>>>,
    <<<<0, 0, 1, 1, 1>>, <<1, 1, 0, 0, 0>>>>,
    <<<<0, 1, 1, 1, 0>>, <<1, 0, 0, 0, 1>>>>,
    <<<<1, 0, 1, 0, 0>>, <<0, 1, 0, 1, 1>>>>>>
round2_theta_c ==
  <<<<<<0, 1, 1, 1, 1>>, <<1, 0, 0, 0, 0>>>>,
    <<<<1, 1, 1, 1, 0>>, <<0, 0, 0, 0, 1>>>>,
    <<<<1, 1, 1, 0, 1>>, <<0, 0, 0, 1, 0>>>>,
    <<<<1, 1, 0, 1, 1>>, <<0, 0, 1, 0, 0>>>>,
    <<<<1, 0, 1, 1, 1>>, <<0, 1, 0, 0, 0>>>>>>
round3_theta_c ==
  <<<<<<0, 1, 0, 0, 1>>, <<1, 0, 1, 1, 0>>>>,
    <<<<0, 1, 1, 0, 0>>, <<1, 0, 0, 1, 1>>>>,
    <<<<1, 1, 0, 1, 0>>, <<0, 0, 1, 0, 1>>>>,
    <<<<1, 0, 1, 0, 1>>, <<0, 1, 0, 1, 0>>>>,
    <<<<0, 0, 0, 1, 1>>, <<1, 1, 1, 0, 0>>>>>>

(***************************************************************************)
(* theta_d, for each column its halves: <<x, h, x', h', n>> says that the     *)
(* half is half h of c[x] and half h' of c[x'] rotated by n.                  *)
(***************************************************************************)
round0_theta_d ==
  <<<<<<4, 0, 1, 1, 1>>, <<4, 1, 1, 0, 0>>>>,
    <<<<0, 0, 2, 1, 1>>, <<0, 1, 2, 0, 0>>>>,
    <<<<1, 0, 3, 1, 1>>, <<1, 1, 3, 0, 0>>>>,
    <<<<2, 0, 4, 1, 1>>, <<2, 1, 4, 0, 0>>>>,
    <<<<3, 0, 0, 1, 1>>, <<3, 1, 0, 0, 0>>>>>>
round1_theta_d == round0_theta_d
round2_theta_d == round0_theta_d
round3_theta_d == round0_theta_d

(* round_r_theta calls them all. *)
round0_theta == [c |-> round0_theta_c, d |-> round0_theta_d]
round1_theta == [c |-> round1_theta_c, d |-> round1_theta_d]
round2_theta == [c |-> round2_theta_c, d |-> round2_theta_d]
round3_theta == [c |-> round3_theta_c, d |-> round3_theta_d]

-----------------------------------------------------------------------------
(***************************************************************************)
(* One function of pi, rho and chi makes five words of one row from one slot *)
(* of each column j = 0 .. 4: <<i, zeta, k, n, m>> says that the slot at row *)
(* i and half zeta, with half k of d[j], rotated by n is bx_m.  Once all five*)
(* are read, the new word ax_j goes to the slot read in column j.            *)
(***************************************************************************)
round0_pi_rho_chi_y0_zeta0 ==
  <<<<0, 0, 0, 0, 0>>, <<1, 0, 0, 22, 1>>, <<2, 1, 1, 22, 2>>, <<3, 1, 1, 11, 3>>, <<4, 0, 0, 7, 4>>>>
round0_pi_rho_chi_y0_zeta1 ==
  <<<<0, 1, 1, 0, 0>>, <<1, 1, 1, 22, 1>>, <<2, 0, 0, 21, 2>>, <<3, 0, 0, 10, 3>>, <<4, 1, 1, 7, 4>>>>
round0_pi_rho_chi_y1_zeta0 ==
  <<<<2, 1, 1, 2, 2>>, <<3, 1, 1, 23, 3>>, <<4, 1, 1, 31, 4>>, <<0, 0, 0, 14, 0>>, <<1, 0, 0, 10, 1>>>>
round0_pi_rho_chi_y1_zeta1 ==
  <<<<2, 0, 0, 1, 2>>, <<3, 0, 0, 22, 3>>, <<4, 0, 0, 30, 4>>, <<0, 1, 1, 14, 0>>, <<1, 1, 1, 10, 1>>>>
round0_pi_rho_chi_y2_zeta0 ==
  <<<<4, 0, 0, 9, 4>>, <<0, 1, 1, 1, 0>>, <<1, 0, 0, 3, 1>>, <<2, 1, 1, 13, 2>>, <<3, 0, 0, 4, 3>>>>
round0_pi_rho_chi_y2_zeta1 ==
  <<<<4, 1, 1, 9, 4>>, <<0, 0, 0, 0, 0>>, <<1, 1, 1, 3, 1>>, <<2, 0, 0, 12, 2>>, <<3, 1, 1, 4, 3>>>>
round0_pi_rho_chi_y3_zeta0 ==
  <<<<1, 0, 0, 18, 1>>, <<2, 0, 0, 5, 2>>, <<3, 1, 1, 8, 3>>, <<4, 0, 0, 28, 4>>, <<0, 1, 1, 14, 0>>>>
round0_pi_rho_chi_y3_zeta1 ==
  <<<<1, 1, 1, 18, 1>>, <<2, 1, 1, 5, 2>>, <<3, 0, 0, 7, 3>>, <<4, 1, 1, 28, 4>>, <<0, 0, 0, 13, 0>>>>
round0_pi_rho_chi_y4_zeta0 ==
  <<<<3, 1, 1, 21, 3>>, <<4, 0, 0, 1, 4>>, <<0, 0, 0, 31, 0>>, <<1, 1, 1, 28, 1>>, <<2, 1, 1, 20, 2>>>>
round0_pi_rho_chi_y4_zeta1 ==
  <<<<3, 0, 0, 20, 3>>, <<4, 1, 1, 1, 4>>, <<0, 1, 1, 31, 0>>, <<1, 0, 0, 27, 1>>, <<2, 0, 0, 19, 2>>>>
round1_pi_rho_chi_y0_zeta0 ==
  <<<<0, 0, 0, 0, 0>>, <<3, 1, 0, 22, 1>>, <<1, 1, 1, 22, 2>>, <<4, 1, 1, 11, 3>>, <<2, 1, 0, 7, 4>>>>
round1_pi_rho_chi_y0_zeta1 ==
  <<<<0, 1, 1, 0, 0>>, <<3, 0, 1, 22, 1>>, <<1, 0, 0, 21, 2>>, <<4, 0, 0, 10, 3>>, <<2, 0, 1, 7, 4>>>>
round1_pi_rho_chi_y1_zeta0 ==
  <<<<4, 1, 1, 2, 2>>, <<2, 1, 1, 23, 3>>, <<0, 1, 1, 31, 4>>, <<3, 1, 0, 14, 0>>, <<1, 0, 0, 10, 1>>>>
round1_pi_rho_chi_y1_zeta1 ==
  <<<<4, 0, 0, 1, 2>>, <<2, 0, 0, 22, 3>>, <<0, 0, 0, 30, 4>>, <<3, 0, 1, 14, 0>>, <<1, 1, 1, 10, 1>>>>
round1_pi_rho_chi_y2_zeta0 ==
  <<<<3, 1, 0, 9, 4>>, <<1, 1, 1, 1, 0>>, <<4, 1, 0, 3, 1>>, <<2, 0, 1, 13, 2>>, <<0, 1, 0, 4, 3>>>>
round1_pi_rho_chi_y2_zeta1 ==
  <<<<3, 0, 1, 9, 4>>, <<1, 0, 0, 0, 0>>, <<4, 0, 1, 3, 1>>, <<2, 1, 0, 12, 2>>, <<0, 0, 1, 4, 3>>>>
round1_pi_rho_chi_y3_zeta0 ==
  <<<<2, 1, 0, 18, 1>>, <<0, 1, 0, 5, 2>>, <<3, 0, 1, 8, 3>>, <<1, 1, 0, 28, 4>>, <<4, 1, 1, 14, 0>>>>
round1_pi_rho_chi_y3_zeta1 ==
  <<<<2, 0, 1, 18, 1>>, <<0, 0, 1, 5, 2>>, <<3, 1, 0, 7, 3>>, <<1, 0, 1, 28, 4>>, <<4, 0, 0, 13, 0>>>>
round1_pi_rho_chi_y4_zeta0 ==
  <<<<1, 1, 1, 21, 3>>, <<4, 0, 0, 1, 4>>, <<2, 1, 0, 31, 0>>, <<0, 1, 1, 28, 1>>, <<3, 1, 1, 20, 2>>>>
round1_pi_rho_chi_y4_zeta1 ==
  <<<<1, 0, 0, 20, 3>>, <<4, 1, 1, 1, 4>>, <<2, 0, 1, 31, 0>>, <<0, 0, 0, 27, 1>>, <<3, 0, 0, 19, 2>>>>
round2_pi_rho_chi_y0_zeta0 ==
  <<<<0, 0, 0, 0, 0>>, <<2, 1, 0, 22, 1>>, <<4, 0, 1, 22, 2>>, <<1, 0, 1, 11, 3>>, <<3, 1, 0, 7, 4>>>>
round2_pi_rho_chi_y0_zeta1 ==
  <<<<0, 1, 1, 0, 0>>, <<2, 0, 1, 22, 1>>, <<4, 1, 0, 21, 2>>, <<1, 1, 0, 10, 3>>, <<3, 0, 1, 7, 4>>>>
round2_pi_rho_chi_y1_zeta0 ==
  <<<<3, 0, 1, 2, 2>>, <<0, 0, 1, 23, 3>>, <<2, 0, 1, 31, 4>>, <<4, 1, 0, 14, 0>>, <<1, 0, 0, 10, 1>>>>
round2_pi_rho_chi_y1_zeta1 ==
  <<<<3, 1, 0, 1, 2>>, <<0, 1, 0, 22, 3>>, <<2, 1, 0, 30, 4>>, <<4, 0, 1, 14, 0>>, <<1, 1, 1, 10, 1>>>>
round2_pi_rho_chi_y2_zeta0 ==
  <<<<1, 1, 0, 9, 4>>, <<3, 0, 1, 1, 0>>, <<0, 1, 0, 3, 1>>, <<2, 1, 1, 13, 2>>, <<4, 1, 0, 4, 3>>>>
round2_pi_rho_chi_y2_zeta1 ==
  <<<<1, 0, 1, 9, 4>>, <<3, 1, 0, 0, 0>>, <<0, 0, 1, 3, 1>>, <<2, 0, 0, 12, 2>>, <<4, 0, 1, 4, 3>>>>
round2_pi_rho_chi_y3_zeta0 ==
  <<<<4, 1, 0, 18, 1>>, <<1, 1, 0, 5, 2>>, <<3, 1, 1, 8, 3>>, <<0, 1, 0, 28, 4>>, <<2, 0, 1, 14, 0>>>>
(* Not the code: the other half of a lane. *)
round2_pi_rho_chi_y3_zeta1_Swapped ==
  <<<<4, 0, 1, 18, 1>>, <<1, 0, 1, 5, 2>>, <<3, 1, 0, 7, 3>>, <<0, 0, 1, 28, 4>>, <<2, 1, 0, 13, 0>>>>
round2_pi_rho_chi_y3_zeta1 ==
  <<<<4, 0, 1, 18, 1>>, <<1, 0, 1, 5, 2>>, <<3, 0, 0, 7, 3>>, <<0, 0, 1, 28, 4>>, <<2, 1, 0, 13, 0>>>>
round2_pi_rho_chi_y4_zeta0 ==
  <<<<2, 0, 1, 21, 3>>, <<4, 0, 0, 1, 4>>, <<1, 1, 0, 31, 0>>, <<3, 0, 1, 28, 1>>, <<0, 0, 1, 20, 2>>>>
round2_pi_rho_chi_y4_zeta1 ==
  <<<<2, 1, 0, 20, 3>>, <<4, 1, 1, 1, 4>>, <<1, 0, 1, 31, 0>>, <<3, 1, 0, 27, 1>>, <<0, 1, 0, 19, 2>>>>
round3_pi_rho_chi_y0_zeta0 ==
  <<<<0, 0, 0, 0, 0>>, <<0, 0, 0, 22, 1>>, <<0, 0, 1, 22, 2>>, <<0, 0, 1, 11, 3>>, <<0, 0, 0, 7, 4>>>>
round3_pi_rho_chi_y0_zeta1 ==
  <<<<0, 1, 1, 0, 0>>, <<0, 1, 1, 22, 1>>, <<0, 1, 0, 21, 2>>, <<0, 1, 0, 10, 3>>, <<0, 1, 1, 7, 4>>>>
round3_pi_rho_chi_y1_zeta0 ==
  <<<<1, 0, 1, 2, 2>>, <<1, 0, 1, 23, 3>>, <<1, 0, 1, 31, 4>>, <<1, 0, 0, 14, 0>>, <<1, 0, 0, 10, 1>>>>
round3_pi_rho_chi_y1_zeta1 ==
  <<<<1, 1, 0, 1, 2>>, <<1, 1, 0, 22, 3>>, <<1, 1, 0, 30, 4>>, <<1, 1, 1, 14, 0>>, <<1, 1, 1, 10, 1>>>>
round3_pi_rho_chi_y2_zeta0 ==
  <<<<2, 0, 0, 9, 4>>, <<2, 0, 1, 1, 0>>, <<2, 0, 0, 3, 1>>, <<2, 0, 1, 13, 2>>, <<2, 0, 0, 4, 3>>>>
round3_pi_rho_chi_y2_zeta1 ==
  <<<<2, 1, 1, 9, 4>>, <<2, 1, 0, 0, 0>>, <<2, 1, 1, 3, 1>>, <<2, 1, 0, 12, 2>>, <<2, 1, 1, 4, 3>>>>
round3_pi_rho_chi_y3_zeta0 ==
  <<<<3, 0, 0, 18, 1>>, <<3, 0, 0, 5, 2>>, <<3, 0, 1, 8, 3>>, <<3, 0, 0, 28, 4>>, <<3, 0, 1, 14, 0>>>>
round3_pi_rho_chi_y3_zeta1 ==
  <<<<3, 1, 1, 18, 1>>, <<3, 1, 1, 5, 2>>, <<3, 1, 0, 7, 3>>, <<3, 1, 1, 28, 4>>, <<3, 1, 0, 13, 0>>>>
round3_pi_rho_chi_y4_zeta0 ==
  <<<<4, 0, 1, 21, 3>>, <<4, 0, 0, 1, 4>>, <<4, 0, 0, 31, 0>>, <<4, 0, 1, 28, 1>>, <<4, 0, 1, 20, 2>>>>
round3_pi_rho_chi_y4_zeta1 ==
  <<<<4, 1, 0, 20, 3>>, <<4, 1, 1, 1, 4>>, <<4, 1, 1, 31, 0>>, <<4, 1, 0, 27, 1>>, <<4, 1, 0, 19, 2>>>>

(* The functions in the order of the calls: y0 and y1 in _1, the rest in _2. *)
round0_pi_rho_chi_1_56 ==
  <<round0_pi_rho_chi_y0_zeta0, round0_pi_rho_chi_y0_zeta1,
    round0_pi_rho_chi_y1_zeta0, round0_pi_rho_chi_y1_zeta1>>
round0_pi_rho_chi_2 ==
  <<round0_pi_rho_chi_y2_zeta0, round0_pi_rho_chi_y2_zeta1,
    round0_pi_rho_chi_y3_zeta0, round0_pi_rho_chi_y3_zeta1,
    round0_pi_rho_chi_y4_zeta0, round0_pi_rho_chi_y4_zeta1>>
round1_pi_rho_chi_1_56 ==
  <<round1_pi_rho_chi_y0_zeta0, round1_pi_rho_chi_y0_zeta1,
    round1_pi_rho_chi_y1_zeta0, round1_pi_rho_chi_y1_zeta1>>
round1_pi_rho_chi_2 ==
  <<round1_pi_rho_chi_y2_zeta0, round1_pi_rho_chi_y2_zeta1,
    round1_pi_rho_chi_y3_zeta0, round1_pi_rho_chi_y3_zeta1,
    round1_pi_rho_chi_y4_zeta0, round1_pi_rho_chi_y4_zeta1>>
round2_pi_rho_chi_1_56 ==
  <<round2_pi_rho_chi_y0_zeta0, round2_pi_rho_chi_y0_zeta1,
    round2_pi_rho_chi_y1_zeta0, round2_pi_rho_chi_y1_zeta1>>
round2_pi_rho_chi_2 ==
  <<round2_pi_rho_chi_y2_zeta0, round2_pi_rho_chi_y2_zeta1,
    round2_pi_rho_chi_y3_zeta0, round2_pi_rho_chi_y3_zeta1,
    round2_pi_rho_chi_y4_zeta0, round2_pi_rho_chi_y4_zeta1>>
round3_pi_rho_chi_1_56 ==
  <<round3_pi_rho_chi_y0_zeta0, round3_pi_rho_chi_y0_zeta1,
    round3_pi_rho_chi_y1_zeta0, round3_pi_rho_chi_y1_zeta1>>
round3_pi_rho_chi_2 ==
  <<round3_pi_rho_chi_y2_zeta0, round3_pi_rho_chi_y2_zeta1,
    round3_pi_rho_chi_y3_zeta0, round3_pi_rho_chi_y3_zeta1,
    round3_pi_rho_chi_y4_zeta0, round3_pi_rho_chi_y4_zeta1>>

(* Four rounds: theta, then the rows. *)
keccakf1600_4rounds_56 ==
  <<[theta |-> round0_theta, rows |-> round0_pi_rho_chi_1_56 \o round0_pi_rho_chi_2],
    [theta |-> round1_theta, rows |-> round1_pi_rho_chi_1_56 \o round1_pi_rho_chi_2],
    [theta |-> round2_theta, rows |-> round2_pi_rho_chi_1_56 \o round2_pi_rho_chi_2],
    [theta |-> round3_theta, rows |-> round3_pi_rho_chi_1_56 \o round3_pi_rho_chi_2]>>

(* The round constants, as the set of bits that are 1 in each half: the first  *)
(* 24 entries of the tables, which have 255.                                   *)
RC_INTERLEAVED_0 ==
  <<{0}, {}, {}, {}, {0}, {0}, {0}, {0}, {}, {}, {0}, {}, {0}, {0}, {0}, {0},
    {}, {}, {}, {}, {0}, {}, {0}, {}>>
RC_INTERLEAVED_1 ==
  <<{}, {0, 3, 7}, {0, 1, 3, 7, 31}, {7, 15, 31}, {0, 1, 3, 7}, {15},
    {3, 7, 15, 31}, {1, 7, 31}, {0, 1, 3}, {1, 3}, {1, 7, 15}, {0, 1, 15},
    {0, 1, 3, 7, 15}, {0, 1, 3, 31}, {1, 3, 7, 31}, {0, 7, 31}, {0, 7, 31},
    {3, 31}, {0, 1, 7}, {0, 1, 15, 31}, {3, 7, 15, 31}, {3, 7, 31}, {15},
    {1, 7, 15, 31}>>

(* The groups of four rounds in order, and whether the rounds are counted. *)
keccakf1600 ==
  [groups |-> [n \in 1 .. 6 |-> keccakf1600_4rounds_56],
   counted |-> TRUE, RC |-> <<RC_INTERLEAVED_0, RC_INTERLEAVED_1>>]
=============================================================================
