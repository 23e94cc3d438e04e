------------------------------ MODULE MlDsaNtt ------------------------------
(***************************************************************************)
(* Ring elements of ML-DSA through key generation, signing and verification:  *)
(* the transforms layer by layer, and the products between them.  An element  *)
(* is the residues of its 256 coefficients and m, how large any of them may   *)
(* be in absolute value for the worst inputs: nothing is reduced in between   *)
(* unless the code does it.  The copies of the unrolled layers in the two     *)
(* bundles are followed alike.                                                *)
(***************************************************************************)
EXTENDS Integers, SequencesExt

CONSTANTS Rows, Columns,  \* of the matrix A
          Flows,          \* the callers followed
          Exponents       \* their inputs are monomials like X^e, e one of these

q == 8380417
MaxI32 == 2147483647
Index == 0 .. 255
Coefficient == 0 .. 7

VARIABLES copy,      \* whose layers: extracted, combined
          flow,      \* which caller: keygen, sign, respond, remainder, verify
          e,         \* the inputs' exponent
          pc, i, j,  \* where in it, and the loops' counters
          layer,     \* the next layer of the transform under way
          x,         \* the vector multiplied, of the columns
          c,         \* the challenge
          t,         \* s2, the mask, w0 or t1: what is combined with the products
          result     \* the rows' results
vars == <<copy, flow, e, pc, i, j, layer, x, c, t, result>>

-----------------------------------------------------------------------------
(* The unrolled butterflies: an element is 32 units of eight coefficients;     *)
(* layers 7 to 3 pair whole units, layers 2 to 0 coefficients of one unit.     *)

(* outer_3_plus: units offset .. offset + step - 1, each with the one step on. *)
Outer(offset, step, zeta) == [offset |-> offset, step |-> step, zeta |-> zeta]

ntt_at_layer_7 ==
  <<Outer(0, 16, 25847)>>

ntt_at_layer_6 ==
  <<Outer(0, 8, -2608894), Outer(16, 8, -518909)>>

(* Not the code: a block whose zeta has lost its sign. *)
ntt_at_layer_5_Sign ==
  <<Outer(0, 4, 237124), Outer(8, 4, -777960), Outer(16, 4, -876248),
    Outer(24, 4, -466468)>>

ntt_at_layer_5 ==
  <<Outer(0, 4, 237124), Outer(8, 4, -777960), Outer(16, 4, -876248),
    Outer(24, 4, 466468)>>

ntt_at_layer_4 ==
  <<Outer(0, 2, 1826347), Outer(4, 2, 2353451), Outer(8, 2, -359251),
    Outer(12, 2, -2091905), Outer(16, 2, 3119733), Outer(20, 2, -2884855),
    Outer(24, 2, 3111497), Outer(28, 2, 2680103)>>

ntt_at_layer_3_from_0 ==
  <<Outer(0, 1, 2725464), Outer(2, 1, 1024112), Outer(4, 1, -1079900),
    Outer(6, 1, 3585928), Outer(8, 1, -549488), Outer(10, 1, -1119584),
    Outer(12, 1, 2619752), Outer(14, 1, -2108549)>>
ntt_at_layer_3_from_16 ==
  <<Outer(16, 1, -2118186), Outer(18, 1, -3859737), Outer(20, 1, -1399561),
    Outer(22, 1, -3277672), Outer(24, 1, 1757237), Outer(26, 1, -19422),
    Outer(28, 1, 4010497), Outer(30, 1, 280005)>>
ntt_at_layer_3 == ntt_at_layer_3_from_0 \o ntt_at_layer_3_from_16

ntt_at_layer_2 ==
  <<<<2706023>>, <<95776>>, <<3077325>>, <<3530437>>, <<-1661693>>,
    <<-3592148>>, <<-2537516>>, <<3915439>>, <<-3861115>>, <<-3043716>>,
    <<3574422>>, <<-2867647>>, <<3539968>>, <<-300467>>, <<2348700>>,
    <<-539299>>, <<-1699267>>, <<-1643818>>, <<3505694>>, <<-3821735>>,
    <<3507263>>, <<-2140649>>, <<-1600420>>, <<3699596>>, <<811944>>,
    <<531354>>, <<954230>>, <<3881043>>, <<3900724>>, <<-2556880>>,
    <<2071892>>, <<-2797779>>>>

ntt_at_layer_1 ==
  <<<<-3930395, -1528703>>, <<-3677745, -3041255>>, <<-1452451, 3475950>>,
    <<2176455, -1585221>>, <<-1257611, 1939314>>, <<-4083598, -1000202>>,
    <<-3190144, -3157330>>, <<-3632928, 126922>>, <<3412210, -983419>>,
    <<2147896, 2715295>>, <<-2967645, -3693493>>, <<-411027, -2477047>>,
    <<-671102, -1228525>>, <<-22981, -1308169>>, <<-381987, 1349076>>,
    <<1852771, -1430430>>, <<-3343383, 264944>>, <<508951, 3097992>>,
    <<44288, -1100098>>, <<904516, 3958618>>, <<-3724342, -8578>>,
    <<1653064, -3249728>>, <<2389356, -210977>>, <<759969, -1316856>>,
    <<189548, -3553272>>, <<3159746, -1851402>>, <<-2409325, -177440>>,
    <<1315589, 1341330>>, <<1285669, -1584928>>, <<-812732, -1439742>>,
    <<-3019102, -3881060>>, <<-3628969, 3839961>>>>

ntt_at_layer_0 ==
  <<<<2091667, 3407706, 2316500, 3817976>>,
    <<-3342478, 2244091, -2446433, -3562462>>,
    <<266997, 2434439, -1235728, 3513181>>,
    <<-3520352, -3759364, -1197226, -3193378>>,
    <<900702, 1859098, 909542, 819034>>,
    <<495491, -1613174, -43260, -522500>>,
    <<-655327, -3122442, 2031748, 3207046>>,
    <<-3556995, -525098, -768622, -3595838>>,
    <<342297, 286988, -2437823, 4108315>>,
    <<3437287, -3342277, 1735879, 203044>>,
    <<2842341, 2691481, -2590150, 1265009>>,
    <<4055324, 1247620, 2486353, 1595974>>,
    <<-3767016, 1250494, 2635921, -3548272>>,
    <<-2994039, 1869119, 1903435, -1050970>>,
    <<-1333058, 1237275, -3318210, -1430225>>,
    <<-451100, 1312455, 3306115, -1962642>>,
    <<-1279661, 1917081, -2546312, -1374803>>,
    <<1500165, 777191, 2235880, 3406031>>,
    <<-542412, -2831860, -1671176, -1846953>>,
    <<-2584293, -3724270, 594136, -3776993>>,
    <<-2013608, 2432395, 2454455, -164721>>,
    <<1957272, 3369112, 185531, -1207385>>,
    <<-3183426, 162844, 1616392, 3014001>>,
    <<810149, 1652634, -3694233, -1799107>>,
    <<-3038916, 3523897, 3866901, 269760>>,
    <<2213111, -975884, 1717735, 472078>>,
    <<-426683, 1723600, -1803090, 1910376>>,
    <<-1667432, -1104333, -260646, -3833893>>,
    <<-2939036, -2235985, -420899, -2286327>>,
    <<183443, -976891, 1612842, -3545687>>,
    <<-554416, 3919660, -48306, -1362209>>,
    <<3937738, 1400424, -846154, 1976782>>>>

invert_ntt_at_layer_0 ==
  <<<<1976782, -846154, 1400424, 3937738>>,
    <<-1362209, -48306, 3919660, -554416>>,
    <<-3545687, 1612842, -976891, 183443>>,
    <<-2286327, -420899, -2235985, -2939036>>,
    <<-3833893, -260646, -1104333, -1667432>>,
    <<1910376, -1803090, 1723600, -426683>>,
    <<472078, 1717735, -975884, 2213111>>,
    <<269760, 3866901, 3523897, -3038916>>,
    <<-1799107, -3694233, 1652634, 810149>>,
    <<3014001, 1616392, 162844, -3183426>>,
    <<-1207385, 185531, 3369112, 1957272>>,
    <<-164721, 2454455, 2432395, -2013608>>,
    <<-3776993, 594136, -3724270, -2584293>>,
    <<-1846953, -1671176, -2831860, -542412>>,
    <<3406031, 2235880, 777191, 1500165>>,
    <<-1374803, -2546312, 1917081, -1279661>>,
    <<-1962642, 3306115, 1312455, -451100>>,
    <<-1430225, -3318210, 1237275, -1333058>>,
    <<-1050970, 1903435, 1869119, -2994039>>,
    <<-3548272, 2635921, 1250494, -3767016>>,
    <<1595974, 2486353, 1247620, 4055324>>,
    <<1265009, -2590150, 2691481, 2842341>>,
    <<203044, 1735879, -3342277, 3437287>>,
    <<4108315, -2437823, 286988, 342297>>,
    <<-3595838, -768622, -525098, -3556995>>,
    <<3207046, 2031748, -3122442, -655327>>,
    <<-522500, -43260, -1613174, 495491>>,
    <<819034, 909542, 1859098, 900702>>,
    <<-3193378, -1197226, -3759364, -3520352>>,
    <<3513181, -1235728, 2434439, 266997>>,
    <<-3562462, -2446433, 2244091, -3342478>>,
    <<3817976, 2316500, 3407706, 2091667>>>>

invert_ntt_at_layer_1 ==
  <<<<3839961, -3628969>>, <<-3881060, -3019102>>, <<-1439742, -812732>>,
    <<-1584928, 1285669>>, <<1341330, 1315589>>, <<-177440, -2409325>>,
    <<-1851402, 3159746>>, <<-3553272, 189548>>, <<-1316856, 759969>>,
    <<-210977, 2389356>>, <<-3249728, 1653064>>, <<-8578, -3724342>>,
    <<3958618, 904516>>, <<-1100098, 44288>>, <<3097992, 508951>>,
    <<264944, -3343383>>, <<-1430430, 1852771>>, <<1349076, -381987>>,
    <<-1308169, -22981>>, <<-1228525, -671102>>, <<-2477047, -411027>>,
    <<-3693493, -2967645>>, <<2715295, 2147896>>, <<-983419, 3412210>>,
    <<126922, -3632928>>, <<-3157330, -3190144>>, <<-1000202, -4083598>>,
    <<1939314, -1257611>>, <<-1585221, 2176455>>, <<3475950, -1452451>>,
    <<-3041255, -3677745>>, <<-1528703, -3930395>>>>

invert_ntt_at_layer_2 ==
  <<<<-2797779>>, <<2071892>>, <<-2556880>>, <<3900724>>, <<3881043>>,
    <<954230>>, <<531354>>, <<811944>>, <<3699596>>, <<-1600420>>,
    <<-2140649>>, <<3507263>>, <<-3821735>>, <<3505694>>, <<-1643818>>,
    <<-1699267>>, <<-539299>>, <<2348700>>, <<-300467>>, <<3539968>>,
    <<-2867647>>, <<3574422>>, <<-3043716>>, <<-3861115>>, <<3915439>>,
    <<-2537516>>, <<-3592148>>, <<-1661693>>, <<3530437>>, <<3077325>>,
    <<95776>>, <<2706023>>>>

invert_ntt_at_layer_3_from_0 ==
  <<Outer(0, 1, 280005), Outer(2, 1, 4010497), Outer(4, 1, -19422),
    Outer(6, 1, 1757237), Outer(8, 1, -3277672), Outer(10, 1, -1399561),
    Outer(12, 1, -3859737), Outer(14, 1, -2118186)>>
invert_ntt_at_layer_3_from_16 ==
  <<Outer(16, 1, -2108549), Outer(18, 1, 2619752), Outer(20, 1, -1119584),
    Outer(22, 1, -549488), Outer(24, 1, 3585928), Outer(26, 1, -1079900),
    Outer(28, 1, 1024112), Outer(30, 1, 2725464)>>
invert_ntt_at_layer_3 == invert_ntt_at_layer_3_from_0 \o invert_ntt_at_layer_3_from_16

invert_ntt_at_layer_4 ==
  <<Outer(0, 2, 2680103), Outer(4, 2, 3111497), Outer(8, 2, -2884855),
    Outer(12, 2, 3119733), Outer(16, 2, -2091905), Outer(20, 2, -359251),
    Outer(24, 2, 2353451), Outer(28, 2, 1826347)>>

invert_ntt_at_layer_5 ==
  <<Outer(0, 4, 466468), Outer(8, 4, -876248), Outer(16, 4, -777960),
    Outer(24, 4, 237124)>>

invert_ntt_at_layer_6 ==
  <<Outer(0, 8, -518909), Outer(16, 8, -2608894)>>

invert_ntt_at_layer_7 ==
  <<Outer(0, 16, 25847)>>

(* The layers in the order of ntt and of invert_ntt_montgomery. *)
extracted_ntt ==
  [forward |-> <<ntt_at_layer_7, ntt_at_layer_6, ntt_at_layer_5,
      ntt_at_layer_4, ntt_at_layer_3, ntt_at_layer_2,
      ntt_at_layer_1, ntt_at_layer_0>>,
   backward |-> <<invert_ntt_at_layer_0, invert_ntt_at_layer_1, invert_ntt_at_layer_2,
      invert_ntt_at_layer_3, invert_ntt_at_layer_4, invert_ntt_at_layer_5,
      invert_ntt_at_layer_6, invert_ntt_at_layer_7>>]

-----------------------------------------------------------------------------
(* The copy in the bundle that combines ML-KEM and ML-DSA, of another revision. *)

combined_ntt_at_layer_7 ==
  <<Outer(0, 16, 25847)>>

combined_ntt_at_layer_6 ==
  <<Outer(0, 8, -2608894), Outer(16, 8, -518909)>>

combined_ntt_at_layer_5 ==
  <<Outer(0, 4, 237124), Outer(8, 4, -777960), Outer(16, 4, -876248),
    Outer(24, 4, 466468)>>

combined_ntt_at_layer_4 ==
  <<Outer(0, 2, 1826347), Outer(4, 2, 2353451), Outer(8, 2, -359251),
    Outer(12, 2, -2091905), Outer(16, 2, 3119733), Outer(20, 2, -2884855),
    Outer(24, 2, 3111497), Outer(28, 2, 2680103)>>

combined_ntt_at_layer_3_from_0 ==
  <<Outer(0, 1, 2725464), Outer(2, 1, 1024112), Outer(4, 1, -1079900),
    Outer(6, 1, 3585928), Outer(8, 1, -549488), Outer(10, 1, -1119584),
    Outer(12, 1, 2619752), Outer(14, 1, -2108549)>>
combined_ntt_at_layer_3_from_16 ==
  <<Outer(16, 1, -2118186), Outer(18, 1, -3859737), Outer(20, 1, -1399561),
    Outer(22, 1, -3277672), Outer(24, 1, 1757237), Outer(26, 1, -19422),
    Outer(28, 1, 4010497), Outer(30, 1, 280005)>>
combined_ntt_at_layer_3 == combined_ntt_at_layer_3_from_0 \o combined_ntt_at_layer_3_from_16

combined_ntt_at_layer_2 ==
  <<<<2706023>>, <<95776>>, <<3077325>>, <<3530437>>, <<-1661693>>,
    <<-3592148>>, <<-2537516>>, <<3915439>>, <<-3861115>>, <<-3043716>>,
    <<3574422>>, <<-2867647>>, <<3539968>>, <<-300467>>, <<2348700>>,
    <<-539299>>, <<-1699267>>, <<-1643818>>, <<3505694>>, <<-3821735>>,
    <<3507263>>, <<-2140649>>, <<-1600420>>, <<3699596>>, <<811944>>,
    <<531354>>, <<954230>>, <<3881043>>, <<3900724>>, <<-2556880>>,
    <<2071892>>, <<-2797779>>>>

combined_ntt_at_layer_1 ==
  <<<<-3930395, -1528703>>, <<-3677745, -3041255>>, <<-1452451, 3475950>>,
    <<2176455, -1585221>>, <<-1257611, 1939314>>, <<-4083598, -1000202>>,
    <<-3190144, -3157330>>, <<-3632928, 126922>>, <<3412210, -983419>>,
    <<2147896, 2715295>>, <<-2967645, -3693493>>, <<-411027, -2477047>>,
    <<-671102, -1228525>>, <<-22981, -1308169>>, <<-381987, 1349076>>,
    <<1852771, -1430430>>, <<-3343383, 264944>>, <<508951, 3097992>>,
    <<44288, -1100098>>, <<904516, 3958618>>, <<-3724342, -8578>>,
    <<1653064, -3249728>>, <<2389356, -210977>>, <<759969, -1316856>>,
    <<189548, -3553272>>, <<3159746, -1851402>>, <<-2409325, -177440>>,
    <<1315589, 1341330>>, <<1285669, -1584928>>, <<-812732, -1439742>>,
    <<-3019102, -3881060>>, <<-3628969, 3839961>>>>

combined_ntt_at_layer_0 ==
  <<<<2091667, 3407706, 2316500, 3817976>>,
    <<-3342478, 2244091, -2446433, -3562462>>,
    <<266997, 2434439, -1235728, 3513181>>,
    <<-3520352, -3759364, -1197226, -3193378>>,
    <<900702, 1859098, 909542, 819034>>,
    <<495491, -1613174, -43260, -522500>>,
    <<-655327, -3122442, 2031748, 3207046>>,
    <<-3556995, -525098, -768622, -3595838>>,
    <<342297, 286988, -2437823, 4108315>>,
    <<3437287, -3342277, 1735879, 203044>>,
    <<2842341, 2691481, -2590150, 1265009>>,
    <<4055324, 1247620, 2486353, 1595974>>,
    <<-3767016, 1250494, 2635921, -3548272>>,
    <<-2994039, 1869119, 1903435, -1050970>>,
    <<-1333058, 1237275, -3318210, -1430225>>,
    <<-451100, 1312455, 3306115, -1962642>>,
    <<-1279661, 1917081, -2546312, -1374803>>,
    <<1500165, 777191, 2235880, 3406031>>,
    <<-542412, -2831860, -1671176, -1846953>>,
    <<-2584293, -3724270, 594136, -3776993>>,
    <<-2013608, 2432395, 2454455, -164721>>,
    <<1957272, 3369112, 185531, -1207385>>,
    <<-3183426, 162844, 1616392, 3014001>>,
    <<810149, 1652634, -3694233, -1799107>>,
    <<-3038916, 3523897, 3866901, 269760>>,
    <<2213111, -975884, 1717735, 472078>>,
    <<-426683, 1723600, -1803090, 1910376>>,
    <<-1667432, -1104333, -260646, -3833893>>,
    <<-2939036, -2235985, -420899, -2286327>>,
    <<183443, -976891, 1612842, -3545687>>,
    <<-554416, 3919660, -48306, -1362209>>,
    <<3937738, 1400424, -846154, 1976782>>>>

combined_invert_ntt_at_layer_0 ==
  <<<<1976782, -846154, 1400424, 3937738>>,
    <<-1362209, -48306, 3919660, -554416>>,
    <<-3545687, 1612842, -976891, 183443>>,
    <<-2286327, -420899, -2235985, -2939036>>,
    <<-3833893, -260646, -1104333, -1667432>>,
    <<1910376, -1803090, 1723600, -426683>>,
    <<472078, 1717735, -975884, 2213111>>,
    <<269760, 3866901, 3523897, -3038916>>,
    <<-1799107, -3694233, 1652634, 810149>>,
    <<3014001, 1616392, 162844, -3183426>>,
    <<-1207385, 185531, 3369112, 1957272>>,
    <<-164721, 2454455, 2432395, -2013608>>,
    <<-3776993, 594136, -3724270, -2584293>>,
    <<-1846953, -1671176, -2831860, -542412>>,
    <<3406031, 2235880, 777191, 1500165>>,
    <<-1374803, -2546312, 1917081, -1279661>>,
    <<-1962642, 3306115, 1312455, -451100>>,
    <<-1430225, -3318210, 1237275, -1333058>>,
    <<-1050970, 1903435, 1869119, -2994039>>,
    <<-3548272, 2635921, 1250494, -3767016>>,
    <<1595974, 2486353, 1247620, 4055324>>,
    <<1265009, -2590150, 2691481, 2842341>>,
    <<203044, 1735879, -3342277, 3437287>>,
    <<4108315, -2437823, 286988, 342297>>,
    <<-3595838, -768622, -525098, -3556995>>,
    <<3207046, 2031748, -3122442, -655327>>,
    <<-522500, -43260, -1613174, 495491>>,
    <<819034, 909542, 1859098, 900702>>,
    <<-3193378, -1197226, -3759364, -3520352>>,
    <<3513181, -1235728, 2434439, 266997>>,
    <<-3562462, -2446433, 2244091, -3342478>>,
    <<3817976, 2316500, 3407706, 2091667>>>>

combined_invert_ntt_at_layer_1 ==
  <<<<3839961, -3628969>>, <<-3881060, -3019102>>, <<-1439742, -812732>>,
    <<-1584928, 1285669>>, <<1341330, 1315589>>, <<-177440, -2409325>>,
    <<-1851402, 3159746>>, <<-3553272, 189548>>, <<-1316856, 759969>>,
    <<-210977, 2389356>>, <<-3249728, 1653064>>, <<-8578, -3724342>>,
    <<3958618, 904516>>, <<-1100098, 44288>>, <<3097992, 508951>>,
    <<264944, -3343383>>, <<-1430430, 1852771>>, <<1349076, -381987>>,
    <<-1308169, -22981>>, <<-1228525, -671102>>, <<-2477047, -411027>>,
    <<-3693493, -2967645>>, <<2715295, 2147896>>, <<-983419, 3412210>>,
    <<126922, -3632928>>, <<-3157330, -3190144>>, <<-1000202, -4083598>>,
    <<1939314, -1257611>>, <<-1585221, 2176455>>, <<3475950, -1452451>>,
    <<-3041255, -3677745>>, <<-1528703, -3930395>>>>

combined_invert_ntt_at_layer_2 ==
  <<<<-2797779>>, <<2071892>>, <<-2556880>>, <<3900724>>, <<3881043>>,
    <<954230>>, <<531354>>, <<811944>>, <<3699596>>, <<-1600420>>,
    <<-2140649>>, <<3507263>>, <<-3821735>>, <<3505694>>, <<-1643818>>,
    <<-1699267>>, <<-539299>>, <<2348700>>, <<-300467>>, <<3539968>>,
    <<-2867647>>, <<3574422>>, <<-3043716>>, <<-3861115>>, <<3915439>>,
    <<-2537516>>, <<-3592148>>, <<-1661693>>, <<3530437>>, <<3077325>>,
    <<95776>>, <<2706023>>>>

combined_invert_ntt_at_layer_3_from_0 ==
  <<Outer(0, 1, 280005), Outer(2, 1, 4010497), Outer(4, 1, -19422),
    Outer(6, 1, 1757237), Outer(8, 1, -3277672), Outer(10, 1, -1399561),
    Outer(12, 1, -3859737), Outer(14, 1, -2118186)>>
combined_invert_ntt_at_layer_3_from_16 ==
  <<Outer(16, 1, -2108549), Outer(18, 1, 2619752), Outer(20, 1, -1119584),
    Outer(22, 1, -549488), Outer(24, 1, 3585928), Outer(26, 1, -1079900),
    Outer(28, 1, 1024112), Outer(30, 1, 2725464)>>
combined_invert_ntt_at_layer_3 == combined_invert_ntt_at_layer_3_from_0 \o combined_invert_ntt_at_layer_3_from_16

combined_invert_ntt_at_layer_4 ==
  <<Outer(0, 2, 2680103), Outer(4, 2, 3111497), Outer(8, 2, -2884855),
    Outer(12, 2, 3119733), Outer(16, 2, -2091905), Outer(20, 2, -359251),
    Outer(24, 2, 2353451), Outer(28, 2, 1826347)>>

combined_invert_ntt_at_layer_5 ==
  <<Outer(0, 4, 466468), Outer(8, 4, -876248), Outer(16, 4, -777960),
    Outer(24, 4, 237124)>>

combined_invert_ntt_at_layer_6 ==
  <<Outer(0, 8, -518909), Outer(16, 8, -2608894)>>

combined_invert_ntt_at_layer_7 ==
  <<Outer(0, 16, 25847)>>

combined_ntt ==
  [forward |-> <<combined_ntt_at_layer_7, combined_ntt_at_layer_6, combined_ntt_at_layer_5,
      combined_ntt_at_layer_4, combined_ntt_at_layer_3, combined_ntt_at_layer_2,
      combined_ntt_at_layer_1, combined_ntt_at_layer_0>>,
   backward |-> <<combined_invert_ntt_at_layer_0, combined_invert_ntt_at_layer_1, combined_invert_ntt_at_layer_2,
      combined_invert_ntt_at_layer_3, combined_invert_ntt_at_layer_4, combined_invert_ntt_at_layer_5,
      combined_invert_ntt_at_layer_6, combined_invert_ntt_at_layer_7>>]

-----------------------------------------------------------------------------
(* Residues; the product is formed a byte at a time, to stay in 32 bits. *)
Mul(a, b) ==
  LET top == (a * (b \div 65536)) % q
      mid == (((top * 256) % q) + ((a * ((b \div 256) % 256)) % q)) % q
  IN  (((mid * 256) % q) + ((a * (b % 256)) % q)) % q

RInverse == 8265825  \* of 2^32

(* Bounds; MaxI32 stands for every larger value, the overflow. *)
Plus(a, b) == IF a > MaxI32 - b THEN MaxI32 ELSE a + b

(* A product by the Montgomery reduction: its factor 1/R, and |ab|/R + q/2. *)
montgomery_reduce_element(a, b) == Mul(Mul(a, b), RInverse)
MontgomeryBound(a, b) ==
  ((a \div 65536) + 1) * ((b \div 65536) + 1) + (q \div 2) + 1

montgomery_multiply(lhs, rhs) ==
  [v |-> [n \in Index |-> montgomery_reduce_element(lhs.v[n], rhs.v[n])],
   m |-> MontgomeryBound(lhs.m, rhs.m)]

montgomery_multiply_by_constant(re, k) ==
  [v |-> LET kR == Mul(k % q, RInverse) IN [n \in Index |-> Mul(re.v[n], kR)],
   m |-> MontgomeryBound(re.m, k)]

add(lhs, rhs) ==
  [v |-> [n \in Index |-> (lhs.v[n] + rhs.v[n]) % q], m |-> Plus(lhs.m, rhs.m)]

subtract(lhs, rhs) ==
  [v |-> [n \in Index |-> (lhs.v[n] - rhs.v[n]) % q], m |-> Plus(lhs.m, rhs.m)]

(* reduce_element folds what lies above bit 23: 2^23 is q + 8191. *)
ReducedBound(m) == ((Plus(m, 4194304) \div 8388608) * 8191) + 4194304

shift_left_then_reduce(re, shift) ==
  [v |-> [n \in Index |-> Mul(re.v[n], 2^shift)],
   m |-> IF re.m > MaxI32 \div 2^shift THEN MaxI32 ELSE ReducedBound(re.m * 2^shift)]

(* Not the code: the comment above each call says what happens without it. *)
reduce_Not(re) == re

reduce(re) == shift_left_then_reduce(re, 0)

-----------------------------------------------------------------------------
(***************************************************************************)
(* The butterflies of a layer: which coefficients meet, and the zeta.        *)
(***************************************************************************)
outer_3_plus(blocks) ==
  UNION {{[lo |-> 8 * n + l, hi |-> 8 * (n + blocks[b].step) + l, zeta |-> blocks[b].zeta] :
            l \in Coefficient, n \in blocks[b].offset .. blocks[b].offset + blocks[b].step - 1} :
         b \in DOMAIN blocks}

simd_unit_ntt_at_layer_2(zetas, u) ==
  {[lo |-> 8 * u + l, hi |-> 8 * u + l + 4, zeta |-> zetas[1]] : l \in 0 .. 3}

simd_unit_ntt_at_layer_1(zetas, u) ==
  {[lo |-> 8 * u + l, hi |-> 8 * u + l + 2, zeta |-> zetas[1 + (l \div 4)]] : l \in {0, 1, 4, 5}}

simd_unit_ntt_at_layer_0(zetas, u) ==
  {[lo |-> 8 * u + l, hi |-> 8 * u + l + 1, zeta |-> zetas[1 + (l \div 2)]] : l \in {0, 2, 4, 6}}

InUnits(Round(_, _), zetas) == UNION {Round(zetas[u + 1], u) : u \in 0 .. 31}

(* The butterfly each coefficient takes part in, its zeta as a residue over R. *)
Pairing(butterflies) ==
  [at |-> [n \in Index |->
             LET b == CHOOSE b \in butterflies : n \in {b.lo, b.hi}
             IN  [lo |-> b.lo, hi |-> b.hi, zeta |-> Mul(b.zeta % q, RInverse)]],
   zeta |-> Max({IF b.zeta < 0 THEN -b.zeta ELSE b.zeta : b \in butterflies})]

ForwardOf(layers) ==
  [n \in 1 .. 5 |-> Pairing(outer_3_plus(layers[n]))]
    \o <<Pairing(InUnits(simd_unit_ntt_at_layer_2, layers[6])),
         Pairing(InUnits(simd_unit_ntt_at_layer_1, layers[7])),
         Pairing(InUnits(simd_unit_ntt_at_layer_0, layers[8]))>>

BackwardOf(layers) ==
  <<Pairing(InUnits(simd_unit_ntt_at_layer_0, layers[1])),
    Pairing(InUnits(simd_unit_ntt_at_layer_1, layers[2])),
    Pairing(InUnits(simd_unit_ntt_at_layer_2, layers[3]))>>
    \o [n \in 1 .. 5 |-> Pairing(outer_3_plus(layers[n + 3]))]

Forward == [extracted |-> ForwardOf(extracted_ntt.forward),
            combined |-> ForwardOf(combined_ntt.forward)]
Backward == [extracted |-> BackwardOf(extracted_ntt.backward),
             combined |-> BackwardOf(combined_ntt.backward)]

(* One layer: hi times zeta is added to lo and taken from it. *)
ntt_layer(re, p) ==
  [v |-> [n \in Index |->
            LET b == p.at[n]
                product == Mul(re.v[b.hi], b.zeta)
            IN  IF n = b.lo THEN (re.v[b.lo] + product) % q ELSE (re.v[b.lo] - product) % q],
   m |-> Plus(re.m, MontgomeryBound(re.m, p.zeta))]

(* One layer back: hi becomes zeta times the difference.  Nothing is reduced. *)
invert_ntt_layer(re, p) ==
  [v |-> [n \in Index |->
            LET b == p.at[n]
            IN  IF n = b.lo THEN (re.v[b.lo] + re.v[b.hi]) % q
                ELSE Mul((re.v[b.hi] - re.v[b.lo]) % q, b.zeta)],
   m |-> Plus(re.m, re.m)]

(* The factor at the end takes 256 and the R of a product out again. *)
invert_ntt_scale(re) == montgomery_multiply_by_constant(re, 41978)

-----------------------------------------------------------------------------
(***************************************************************************)
(* Inputs: monomials, with the bounds of what the callers hand over: A is     *)
(* below q, s1 and s2 below ETA = 4, the mask and the response below GAMMA1,  *)
(* w0 below GAMMA2, t1 below 2^10 and the challenge is -1, 0 and 1.           *)
(***************************************************************************)
Monomial(k, bound) ==
  [v |-> [n \in Index |-> CASE n = k % 512 -> 1 [] n + 256 = k % 512 -> q - 1 [] OTHER -> 0],
   m |-> bound]

ZERO == [v |-> [n \in Index |-> 0], m |-> 0]

BitReversed(n) ==
  LET bit(b) == (n \div 2^b) % 2
  IN  128 * bit(0) + 64 * bit(1) + 32 * bit(2) + 16 * bit(3)
      + 8 * bit(4) + 4 * bit(5) + 2 * bit(6) + bit(7)

RootPower[k \in 0 .. 511] ==
  IF k = 0 THEN 1
  ELSE LET half == RootPower[k \div 2]
       IN  IF k % 2 = 0 THEN Mul(half, half) ELSE Mul(Mul(half, half), 1753)

(* What the transform of X^k is: its value at the 256 roots of X^256 + 1. *)
Values(k) == [n \in Index |-> RootPower[((2 * BitReversed(n) + 1) * k) % 512]]

ExponentOfA(r, col) == e + 37 * r + 101 * col
ExponentOfX(n) == 3 * e + 55 * n
ExponentOfC == 7 * e + 200
ExponentOfT(n) == 5 * e + 91 * n

(* The matrix is a flat array, read by rows. *)
MatrixIndex(r, col) == r * Columns + col

A(r, col) ==
  LET n == MatrixIndex(r, col)
  IN  [v |-> Values(ExponentOfA(n \div Columns, n % Columns)), m |-> q - 1]

InputBound == CASE flow \in {"keygen", "respond", "remainder"} -> 4
                [] OTHER -> 524288
OtherBound == CASE flow = "respond" -> 524288 [] flow = "remainder" -> 261888
                [] flow = "verify" -> 1023 [] OTHER -> 4

(* How many elements a flow takes through the transform, and gives out. *)
Vectors == IF flow \in {"respond", "remainder"} THEN Rows ELSE Columns

Init ==
  /\ copy \in DOMAIN Forward /\ flow \in Flows /\ e \in Exponents
  /\ pc = "ntt_x" /\ i = 0 /\ j = 0 /\ layer = 1
  /\ x = [n \in 0 .. Vectors - 1 |-> Monomial(ExponentOfX(n), InputBound)]
  /\ c = Monomial(ExponentOfC, 1)
  /\ t = [n \in 0 .. Rows - 1 |-> Monomial(ExponentOfT(n), OtherBound)]
  /\ result = [n \in 0 .. Rows - 1 |-> ZERO]

-----------------------------------------------------------------------------
(* The callers transform the vector first, one element after the other. *)
NttX ==
  /\ pc = "ntt_x"
  /\ x' = [x EXCEPT ![j] = ntt_layer(@, Forward[copy][layer])]
  /\ IF layer < 8 THEN layer' = layer + 1 /\ UNCHANGED <<pc, j>>
     ELSE /\ layer' = 1
          /\ IF j < Vectors - 1 THEN j' = j + 1 /\ UNCHANGED pc
             ELSE /\ j' = 0
                  /\ pc' = IF flow \in {"keygen", "sign"} THEN "products" ELSE "ntt_c"
  /\ UNCHANGED <<copy, flow, e, i, c, t, result>>

NttC ==
  /\ pc = "ntt_c"
  /\ c' = ntt_layer(c, Forward[copy][layer])
  /\ IF layer < 8 THEN layer' = layer + 1 /\ UNCHANGED pc
     ELSE layer' = 1 /\ pc' = IF flow = "verify" THEN "products" ELSE "times"
  /\ UNCHANGED <<copy, flow, e, i, j, x, t, result>>

(* One product of a row.  Key generation makes all rows' products first. *)
Product ==
  /\ pc = "products"
  /\ result' = [result EXCEPT ![i] = add(@, montgomery_multiply(A(i, j), x[j]))]
  /\ IF j < Columns - 1 THEN j' = j + 1 /\ UNCHANGED <<pc, i>>
     ELSE /\ j' = 0
          /\ IF flow = "keygen" /\ i < Rows - 1 THEN i' = i + 1 /\ UNCHANGED pc
             ELSE /\ pc' = IF flow = "verify" THEN "ntt_t" ELSE "reduce"
                  /\ i' = IF flow = "keygen" THEN 0 ELSE i
  /\ t' = IF flow = "verify" /\ j = Columns - 1
          THEN [t EXCEPT ![i] = shift_left_then_reduce(@, 13)] ELSE t
  /\ UNCHANGED <<copy, flow, e, layer, x, c>>

(* compute_w_approx takes the challenge times t1 from the row. *)
NttT ==
  /\ pc = "ntt_t"
  /\ t' = [t EXCEPT ![i] = ntt_layer(@, Forward[copy][layer])]
  /\ IF layer < 8 THEN layer' = layer + 1 /\ UNCHANGED <<pc, result>>
     ELSE /\ layer' = 1 /\ pc' = "reduce"
          /\ result' = [result EXCEPT ![i] = subtract(@, montgomery_multiply(t'[i], c))]
  /\ UNCHANGED <<copy, flow, e, i, j, x, c>>

(* vector_times_ring_element: a product, and back without a reduction. *)
Times ==
  /\ pc = "times"
  /\ result' = [result EXCEPT ![i] = montgomery_multiply(x[i], c)]
  /\ pc' = "invert"
  /\ UNCHANGED <<copy, flow, e, i, j, layer, x, c, t>>

Reduce ==
  /\ pc = "reduce"
  /\ result' = [result EXCEPT ![i] = reduce(@)]
  /\ pc' = "invert"
  /\ UNCHANGED <<copy, flow, e, i, j, layer, x, c, t>>

Invert ==
  /\ pc = "invert"
  /\ result' = [result EXCEPT ![i] = invert_ntt_layer(@, Backward[copy][layer])]
  /\ IF layer < 8 THEN layer' = layer + 1 /\ UNCHANGED pc
     ELSE layer' = 1 /\ pc' = "scale"
  /\ UNCHANGED <<copy, flow, e, i, j, x, c, t>>

Scale ==
  /\ pc = "scale"
  /\ result' = [result EXCEPT ![i] = invert_ntt_scale(@)]
  /\ pc' = "combine"
  /\ UNCHANGED <<copy, flow, e, i, j, layer, x, c, t>>

(* s2, the mask or w0 join the product, and the next row begins. *)
Combine ==
  /\ pc = "combine"
  /\ result' = [result EXCEPT ![i] =
                  CASE flow \in {"keygen", "respond"} -> add(t[i], @)
                    [] flow = "remainder" -> subtract(t[i], @)
                    [] OTHER -> @]
  /\ IF i = Rows - 1 THEN pc' = "done" /\ i' = i
     ELSE /\ i' = i + 1
          /\ pc' = CASE flow = "keygen" -> "reduce"
                     [] flow \in {"sign", "verify"} -> "products"
                     [] OTHER -> "times"
  /\ UNCHANGED <<copy, flow, e, j, layer, x, c, t>>

Next ==
  \/ NttX \/ NttC \/ Product \/ NttT \/ Times
  \/ Reduce \/ Invert \/ Scale \/ Combine

Spec == Init /\ [][Next]_vars
=============================================================================
