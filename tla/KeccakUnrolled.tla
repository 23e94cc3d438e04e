--------------------------- MODULE KeccakUnrolled ---------------------------
(***************************************************************************)
(* The copy of keccakf1600 in the ML-KEM bundle, built with full-unroll: each*)
(* of the six groups of four rounds has its own functions _1, with the round*)
(* constant's index in their code.  Those _2, and theta, are shared.        *)
(***************************************************************************)
EXTENDS Integers, Sequences

(***************************************************************************)
(* The ten functions theta_c, for each column its halves: which half of the   *)
(* slot in row i is read, for the rows in order.                             *)
(***************************************************************************)
round0_theta_c ==
  <<<<<<0, 0, 0, 0, 0>>, <<1, 1, 1, 1, 1>>>>,
    <<<<0, 0, 0, 0, 0>>, <<1, 1, 1, 1, 1>>>>,
    <<<<0, 0, 0, 0, 0>>, <<1, 1, 1, 1, 1>>>>,
    <<<<0, 0, 0, 0, 0>>, <<1, 1, 1, 1, 1>>>>,
    <<<<0, 0, 0, 0, 0>>, <<1, 1, 1, 1, 1>>>>>>
round1_theta_c ==
  <<<<<<0, 0, 1, 1, 0>>, <<1, 1, 0, 0, 1>>>>,
    <<<<1, 0, 0, 1, 0>>, <<0, 1, 1, 0, 1>>>>,
    <<<<0, 0, 1, 1, 1>>, <<1, 1, 0, 0, 0>>>>,
    <<<<0, 1, 1, 1, 0>>, <<1, 0, 0, 0, 1>>>>,
    <<<<1, 0, 1, 0, 0>>, <<0, 1, 0, 1, 1>>>>>>
round2_theta_c ==
  <<<<<<0, 1, 1, 1, 1>>, <<1, 0, 0, 0, 0>>>>,
    <<<<1, 1, 1, 1, 0>>, <<0, 0, 0, 0, 1>>>>,
    <<<<1, 1, 1, 0, 1>>, <<0, 0, 0, 1, 0>>>>,
    <<<<1, 1, 0, 1, 1>>, <<0, 0, 1, 0, 0>>>>,
    <<<<1, 0, 1, 1, 1>>, <<0, 1, 0, 0, 0>>>>>>
round3_theta_c ==
  <<<<<<0, 1, 0, 0, 1>>, <<1, 0, 1, 1, 0>>>>,
    <<<<0, 1, 1, 0, 0>>, <<1, 0, 0, 1, 1>>>>,
    <<<<1, 1, 0, 1, 0>>, <<0, 0, 1, 0, 1>>>>,
    <<<<1, 0, 1, 0, 1>>, <<0, 1, 0, 1, 0>>>>,
    <<<<0, 0, 0, 1, 1>>, <<1, 1, 1, 0, 0>>>>>>

(***************************************************************************)
(* theta_d, for each column its halves: <<x, h, x', h', n>> says that the     *)
(* half is half h of c[x] and half h' of c[x'] rotated by n.                  *)
(***************************************************************************)
round0_theta_d ==
  <<<<<<4, 0, 1, 1, 1>>, <<4, 1, 1, 0, 0>>>>,
    <<<<0, 0, 2, 1, 1>>, <<0, 1, 2, 0, 0>>>>,
    <<<<1, 0, 3, 1, 1>>, <<1, 1, 3, 0, 0>>>>,
    <<<<2, 0, 4, 1, 1>>, <<2, 1, 4, 0, 0>>>>,
    <<<<3, 0, 0, 1, 1>>, <<3, 1, 0, 0, 0>>>>>>
round1_theta_d == round0_theta_d
round2_theta_d == round0_theta_d
round3_theta_d == round0_theta_d

(* round_r_theta calls them all. *)
round0_theta == [c |-> round0_theta_c, d |-> round0_theta_d]
round1_theta == [c |-> round1_theta_c, d |-> round1_theta_d]
round2_theta == [c |-> round2_theta_c, d |-> round2_theta_d]
round3_theta == [c |-> round3_theta_c, d |-> round3_theta_d]

-----------------------------------------------------------------------------
(***************************************************************************)
(* The rows of pi, rho and chi, one after the other in the text of _1 and _2, *)
(* written as in KeccakLanes.                                                *)
(***************************************************************************)
round0_pi_rho_chi_1_56 ==
  [rc |-> 0 + 0, rows |-> <<
    <<<<0, 0, 0, 0, 0>>, <<1, 0, 0, 22, 1>>, <<2, 1, 1, 22, 2>>, <<3, 1, 1, 11, 3>>, <<4, 0, 0, 7, 4>>>>,
    <<<<0, 1, 1, 0, 0>>, <<1, 1, 1, 22, 1>>, <<2, 0, 0, 21, 2>>, <<3, 0, 0, 10, 3>>, <<4, 1, 1, 7, 4>>>>,
    <<<<2, 1, 1, 2, 2>>, <<3, 1, 1, 23, 3>>, <<4, 1, 1, 31, 4>>, <<0, 0, 0, 14, 0>>, <<1, 0, 0, 10, 1>>>>,
    <<<<2, 0, 0, 1, 2>>, <<3, 0, 0, 22, 3>>, <<4, 0, 0, 30, 4>>, <<0, 1, 1, 14, 0>>, <<1, 1, 1, 10, 1>>>>>>]
round0_pi_rho_chi_1_23 == [round0_pi_rho_chi_1_56 EXCEPT !.rc = 4 + 0]
round0_pi_rho_chi_1_70 == [round0_pi_rho_chi_1_56 EXCEPT !.rc = 8 + 0]
round0_pi_rho_chi_1_60 == [round0_pi_rho_chi_1_56 EXCEPT !.rc = 12 + 0]
round0_pi_rho_chi_1_18 == [round0_pi_rho_chi_1_56 EXCEPT !.rc = 16 + 0]
round0_pi_rho_chi_1_fc == [round0_pi_rho_chi_1_56 EXCEPT !.rc = 20 + 0]
round1_pi_rho_chi_1_56 ==
  [rc |-> 0 + 1, rows |-> <<
    <<<<0, 0, 0, 0, 0>>, <<3, 1, 0, 22, 1>>, <<1, 1, 1, 22, 2>>, <<4, 1, 1, 11, 3>>, <<2, 1, 0, 7, 4>>>>,
    <<<<0, 1, 1, 0, 0>>, <<3, 0, 1, 22, 1>>, <<1, 0, 0, 21, 2>>, <<4, 0, 0, 10, 3>>, <<2, 0, 1, 7, 4>>>>,
    <<<<4, 1, 1, 2, 2>>, <<2, 1, 1, 23, 3>>, <<0, 1, 1, 31, 4>>, <<3, 1, 0, 14, 0>>, <<1, 0, 0, 10, 1>>>>,
    <<<<4, 0, 0, 1, 2>>, <<2, 0, 0, 22, 3>>, <<0, 0, 0, 30, 4>>, <<3, 0, 1, 14, 0>>, <<1, 1, 1, 10, 1>>>>>>]
round1_pi_rho_chi_1_23 == [round1_pi_rho_chi_1_56 EXCEPT !.rc = 4 + 1]
round1_pi_rho_chi_1_70 == [round1_pi_rho_chi_1_56 EXCEPT !.rc = 8 + 1]
round1_pi_rho_chi_1_60 == [round1_pi_rho_chi_1_56 EXCEPT !.rc = 12 + 1]
round1_pi_rho_chi_1_18 == [round1_pi_rho_chi_1_56 EXCEPT !.rc = 16 + 1]
round1_pi_rho_chi_1_fc == [round1_pi_rho_chi_1_56 EXCEPT !.rc = 20 + 1]
round2_pi_rho_chi_1_56 ==
  [rc |-> 0 + 2, rows |-> <<
    <<<<0, 0, 0, 0, 0>>, <<2, 1, 0, 22, 1>>, <<4, 0, 1, 22, 2>>, <<1, 0, 1, 11, 3>>, <<3, 1, 0, 7, 4>>>>,
    <<<<0, 1, 1, 0, 0>>, <<2, 0, 1, 22, 1>>, <<4, 1, 0, 21, 2>>, <<1, 1, 0, 10, 3>>, <<3, 0, 1, 7, 4>>>>,
    <<<<3, 0, 1, 2, 2>>, <<0, 0, 1, 23, 3>>, <<2, 0, 1, 31, 4>>, <<4, 1, 0, 14, 0>>, <<1, 0, 0, 10, 1>>>>,
    <<<<3, 1, 0, 1, 2>>, <<0, 1, 0, 22, 3>>, <<2, 1, 0, 30, 4>>, <<4, 0, 1, 14, 0>>, <<1, 1, 1, 10, 1>>>>>>]
round2_pi_rho_chi_1_23 == [round2_pi_rho_chi_1_56 EXCEPT !.rc = 4 + 2]
round2_pi_rho_chi_1_70 == [round2_pi_rho_chi_1_56 EXCEPT !.rc = 8 + 2]
round2_pi_rho_chi_1_60 == [round2_pi_rho_chi_1_56 EXCEPT !.rc = 12 + 2]
round2_pi_rho_chi_1_18 == [round2_pi_rho_chi_1_56 EXCEPT !.rc = 16 + 2]
round2_pi_rho_chi_1_fc == [round2_pi_rho_chi_1_56 EXCEPT !.rc = 20 + 2]
round3_pi_rho_chi_1_56 ==
  [rc |-> 0 + 3, rows |-> <<
    <<<<0, 0, 0, 0, 0>>, <<0, 0, 0, 22, 1>>, <<0, 0, 1, 22, 2>>, <<0, 0, 1, 11, 3>>, <<0, 0, 0, 7, 4>>>>,
    <<<<0, 1, 1, 0, 0>>, <<0, 1, 1, 22, 1>>, <<0, 1, 0, 21, 2>>, <<0, 1, 0, 10, 3>>, <<0, 1, 1, 7, 4>>>>,
    <<<<1, 0, 1, 2, 2>>, <<1, 0, 1, 23, 3>>, <<1, 0, 1, 31, 4>>, <<1, 0, 0, 14, 0>>, <<1, 0, 0, 10, 1>>>>,
    <<<<1, 1, 0, 1, 2>>, <<1, 1, 0, 22, 3>>, <<1, 1, 0, 30, 4>>, <<1, 1, 1, 14, 0>>, <<1, 1, 1, 10, 1>>>>>>]
round3_pi_rho_chi_1_23 == [round3_pi_rho_chi_1_56 EXCEPT !.rc = 4 + 3]
round3_pi_rho_chi_1_70 == [round3_pi_rho_chi_1_56 EXCEPT !.rc = 8 + 3]
round3_pi_rho_chi_1_60 == [round3_pi_rho_chi_1_56 EXCEPT !.rc = 12 + 3]
round3_pi_rho_chi_1_18 == [round3_pi_rho_chi_1_56 EXCEPT !.rc = 16 + 3]
round3_pi_rho_chi_1_fc == [round3_pi_rho_chi_1_56 EXCEPT !.rc = 20 + 3]
round0_pi_rho_chi_2 == <<
    <<<<4, 0, 0, 9, 4>>, <<0, 1, 1, 1, 0>>, <<1, 0, 0, 3, 1>>, <<2, 1, 1, 13, 2>>, <<3, 0, 0, 4, 3>>>>,
    <<<<4, 1, 1, 9, 4>>, <<0, 0, 0, 0, 0>>, <<1, 1, 1, 3, 1>>, <<2, 0, 0, 12, 2>>, <<3, 1, 1, 4, 3>>>>,
    <<<<1, 0, 0, 18, 1>>, <<2, 0, 0, 5, 2>>, <<3, 1, 1, 8, 3>>, <<4, 0, 0, 28, 4>>, <<0, 1, 1, 14, 0>>>>,
    <<<<1, 1, 1, 18, 1>>, <<2, 1, 1, 5, 2>>, <<3, 0, 0, 7, 3>>, <<4, 1, 1, 28, 4>>, <<0, 0, 0, 13, 0>>>>,
    <<<<3, 1, 1, 21, 3>>, <<4, 0, 0, 1, 4>>, <<0, 0, 0, 31, 0>>, <<1, 1, 1, 28, 1>>, <<2, 1, 1, 20, 2>>>>,
    <<<<3, 0, 0, 20, 3>>, <<4, 1, 1, 1, 4>>, <<0, 1, 1, 31, 0>>, <<1, 0, 0, 27, 1>>, <<2, 0, 0, 19, 2>>>>>>
round1_pi_rho_chi_2 == <<
    <<<<3, 1, 0, 9, 4>>, <<1, 1, 1, 1, 0>>, <<4, 1, 0, 3, 1>>, <<2, 0, 1, 13, 2>>, <<0, 1, 0, 4, 3>>>>,
    <<<<3, 0, 1, 9, 4>>, <<1, 0, 0, 0, 0>>, <<4, 0, 1, 3, 1>>, <<2, 1, 0, 12, 2>>, <<0, 0, 1, 4, 3>>>>,
    <<<<2, 1, 0, 18, 1>>, <<0, 1, 0, 5, 2>>, <<3, 0, 1, 8, 3>>, <<1, 1, 0, 28, 4>>, <<4, 1, 1, 14, 0>>>>,
    <<<<2, 0, 1, 18, 1>>, <<0, 0, 1, 5, 2>>, <<3, 1, 0, 7, 3>>, <<1, 0, 1, 28, 4>>, <<4, 0, 0, 13, 0>>>>,
    <<<<1, 1, 1, 21, 3>>, <<4, 0, 0, 1, 4>>, <<2, 1, 0, 31, 0>>, <<0, 1, 1, 28, 1>>, <<3, 1, 1, 20, 2>>>>,
    <<<<1, 0, 0, 20, 3>>, <<4, 1, 1, 1, 4>>, <<2, 0, 1, 31, 0>>, <<0, 0, 0, 27, 1>>, <<3, 0, 0, 19, 2>>>>>>
round2_pi_rho_chi_2 == <<
    <<<<1, 1, 0, 9, 4>>, <<3, 0, 1, 1, 0>>, <<0, 1, 0, 3, 1>>, <<2, 1, 1, 13, 2>>, <<4, 1, 0, 4, 3>>>>,
    <<<<1, 0, 1, 9, 4>>, <<3, 1, 0, 0, 0>>, <<0, 0, 1, 3, 1>>, <<2, 0, 0, 12, 2>>, <<4, 0, 1, 4, 3>>>>,
    <<<<4, 1, 0, 18, 1>>, <<1, 1, 0, 5, 2>>, <<3, 1, 1, 8, 3>>, <<0, 1, 0, 28, 4>>, <<2, 0, 1, 14, 0>>>>,
    <<<<4, 0, 1, 18, 1>>, <<1, 0, 1, 5, 2>>, <<3, 0, 0, 7, 3>>, <<0, 0, 1, 28, 4>>, <<2, 1, 0, 13, 0>>>>,
    <<<<2, 0, 1, 21, 3>>, <<4, 0, 0, 1, 4>>, <<1, 1, 0, 31, 0>>, <<3, 0, 1, 28, 1>>, <<0, 0, 1, 20, 2>>>>,
    <<<<2, 1, 0, 20, 3>>, <<4, 1, 1, 1, 4>>, <<1, 0, 1, 31, 0>>, <<3, 1, 0, 27, 1>>, <<0, 1, 0, 19, 2>>>>>>
round3_pi_rho_chi_2 == <<
    <<<<2, 0, 0, 9, 4>>, <<2, 0, 1, 1, 0>>, <<2, 0, 0, 3, 1>>, <<2, 0, 1, 13, 2>>, <<2, 0, 0, 4, 3>>>>,
    <<<<2, 1, 1, 9, 4>>, <<2, 1, 0, 0, 0>>, <<2, 1, 1, 3, 1>>, <<2, 1, 0, 12, 2>>, <<2, 1, 1, 4, 3>>>>,
    <<<<3, 0, 0, 18, 1>>, <<3, 0, 0, 5, 2>>, <<3, 0, 1, 8, 3>>, <<3, 0, 0, 28, 4>>, <<3, 0, 1, 14, 0>>>>,
    <<<<3, 1, 1, 18, 1>>, <<3, 1, 1, 5, 2>>, <<3, 1, 0, 7, 3>>, <<3, 1, 1, 28, 4>>, <<3, 1, 0, 13, 0>>>>,
    <<<<4, 0, 1, 21, 3>>, <<4, 0, 0, 1, 4>>, <<4, 0, 0, 31, 0>>, <<4, 0, 1, 28, 1>>, <<4, 0, 1, 20, 2>>>>,
    <<<<4, 1, 0, 20, 3>>, <<4, 1, 1, 1, 4>>, <<4, 1, 1, 31, 0>>, <<4, 1, 0, 27, 1>>, <<4, 1, 0, 19, 2>>>>>>

(* Four rounds: theta, then the rows. *)
keccakf1600_4rounds_56 ==
  <<[theta |-> round0_theta, rows |-> round0_pi_rho_chi_1_56.rows \o round0_pi_rho_chi_2,
     rc |-> round0_pi_rho_chi_1_56.rc],
    [theta |-> round1_theta, rows |-> round1_pi_rho_chi_1_56.rows \o round1_pi_rho_chi_2,
     rc |-> round1_pi_rho_chi_1_56.rc],
    [theta |-> round2_theta, rows |-> round2_pi_rho_chi_1_56.rows \o round2_pi_rho_chi_2,
     rc |-> round2_pi_rho_chi_1_56.rc],
    [theta |-> round3_theta, rows |-> round3_pi_rho_chi_1_56.rows \o round3_pi_rho_chi_2,
     rc |-> round3_pi_rho_chi_1_56.rc]>>
keccakf1600_4rounds_23 ==
  <<[theta |-> round0_theta, rows |-> round0_pi_rho_chi_1_23.rows \o round0_pi_rho_chi_2,
     rc |-> round0_pi_rho_chi_1_23.rc],
    [theta |-> round1_theta, rows |-> round1_pi_rho_chi_1_23.rows \o round1_pi_rho_chi_2,
     rc |-> round1_pi_rho_chi_1_23.rc],
    [theta |-> round2_theta, rows |-> round2_pi_rho_chi_1_23.rows \o round2_pi_rho_chi_2,
     rc |-> round2_pi_rho_chi_1_23.rc],
    [theta |-> round3_theta, rows |-> round3_pi_rho_chi_1_23.rows \o round3_pi_rho_chi_2,
     rc |-> round3_pi_rho_chi_1_23.rc]>>
keccakf1600_4rounds_70 ==
  <<[theta |-> round0_theta, rows |-> round0_pi_rho_chi_1_70.rows \o round0_pi_rho_chi_2,
     rc |-> round0_pi_rho_chi_1_70.rc],
    [theta |-> round1_theta, rows |-> round1_pi_rho_chi_1_70.rows \o round1_pi_rho_chi_2,
     rc |-> round1_pi_rho_chi_1_70.rc],
    [theta |-> round2_theta, rows |-> round2_pi_rho_chi_1_70.rows \o round2_pi_rho_chi_2,
     rc |-> round2_pi_rho_chi_1_70.rc],
    [theta |-> round3_theta, rows |-> round3_pi_rho_chi_1_70.rows \o round3_pi_rho_chi_2,
     rc |-> round3_pi_rho_chi_1_70.rc]>>
keccakf1600_4rounds_60 ==
  <<[theta |-> round0_theta, rows |-> round0_pi_rho_chi_1_60.rows \o round0_pi_rho_chi_2,
     rc |-> round0_pi_rho_chi_1_60.rc],
    [theta |-> round1_theta, rows |-> round1_pi_rho_chi_1_60.rows \o round1_pi_rho_chi_2,
     rc |-> round1_pi_rho_chi_1_60.rc],
    [theta |-> round2_theta, rows |-> round2_pi_rho_chi_1_60.rows \o round2_pi_rho_chi_2,
     rc |-> round2_pi_rho_chi_1_60.rc],
    [theta |-> round3_theta, rows |-> round3_pi_rho_chi_1_60.rows \o round3_pi_rho_chi_2,
     rc |-> round3_pi_rho_chi_1_60.rc]>>
keccakf1600_4rounds_18 ==
  <<[theta |-> round0_theta, rows |-> round0_pi_rho_chi_1_18.rows \o round0_pi_rho_chi_2,
     rc |-> round0_pi_rho_chi_1_18.rc],
    [theta |-> round1_theta, rows |-> round1_pi_rho_chi_1_18.rows \o round1_pi_rho_chi_2,
     rc |-> round1_pi_rho_chi_1_18.rc],
    [theta |-> round2_theta, rows |-> round2_pi_rho_chi_1_18.rows \o round2_pi_rho_chi_2,
     rc |-> round2_pi_rho_chi_1_18.rc],
    [theta |-> round3_theta, rows |-> round3_pi_rho_chi_1_18.rows \o round3_pi_rho_chi_2,
     rc |-> round3_pi_rho_chi_1_18.rc]>>
keccakf1600_4rounds_fc ==
  <<[theta |-> round0_theta, rows |-> round0_pi_rho_chi_1_fc.rows \o round0_pi_rho_chi_2,
     rc |-> round0_pi_rho_chi_1_fc.rc],
    [theta |-> round1_theta, rows |-> round1_pi_rho_chi_1_fc.rows \o round1_pi_rho_chi_2,
     rc |-> round1_pi_rho_chi_1_fc.rc],
    [theta |-> round2_theta, rows |-> round2_pi_rho_chi_1_fc.rows \o round2_pi_rho_chi_2,
     rc |-> round2_pi_rho_chi_1_fc.rc],
    [theta |-> round3_theta, rows |-> round3_pi_rho_chi_1_fc.rows \o round3_pi_rho_chi_2,
     rc |-> round3_pi_rho_chi_1_fc.rc]>>

(* The round constants, as the set of bits that are 1 in each half: the first  *)
(* 24 entries of the tables, which have 255.                                   *)
RC_INTERLEAVED_0 ==
  <<{0}, {}, {}, {}, {0}, {0}, {0}, {0}, {}, {}, {0}, {}, {0}, {0}, {0}, {0},
    {}, {}, {}, {}, {0}, {}, {0}, {}>>
RC_INTERLEAVED_1 ==
  <<{}, {0, 3, 7}, {0, 1, 3, 7, 31}, {7, 15, 31}, {0, 1, 3, 7}, {15},
    {3, 7, 15, 31}, {1, 7, 31}, {0, 1, 3}, {1, 3}, {1, 7, 15}, {0, 1, 15},
    {0, 1, 3, 7, 15}, {0, 1, 3, 31}, {1, 3, 7, 31}, {0, 7, 31}, {0, 7, 31},
    {3, 31}, {0, 1, 7}, {0, 1, 15, 31}, {3, 7, 15, 31}, {3, 7, 31}, {15},
    {1, 7, 15, 31}>>

(* The groups of four rounds in order, and whether the rounds are counted. *)
keccakf1600 ==
  [groups |-> <<keccakf1600_4rounds_56, keccakf1600_4rounds_23, keccakf1600_4rounds_70,
               keccakf1600_4rounds_60, keccakf1600_4rounds_18, keccakf1600_4rounds_fc>>,
   counted |-> FALSE, RC |-> <<RC_INTERLEAVED_0, RC_INTERLEAVED_1>>]
=============================================================================
