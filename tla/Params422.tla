----------------------------- MODULE Params422 ------------------------------
(***************************************************************************)
(* Tables of aptx422/params.c.  Those of the subbands are in the order LL, *)
(* LH, HL, HH; entry 0 of an increment table is never used and left out.   *)
(***************************************************************************)
EXTENDS Integers, Sequences

(* One octave of the quantiser step. *)
LogTable ==
    LET t == <<
        4194304, 4286464, 4380672, 4476928, 4573184, 4673536, 4775936, 4880384,
        4986880, 5097472, 5208064, 5322752, 5439488, 5558272, 5681152, 5804032,
        5931008, 6062080, 6195200, 6330368, 6467584, 6610944, 6754304, 6903808,
        7053312, 7208960, 7366656, 7528448, 7692288, 7860224, 8032256, 8208384>>
    IN  [i \in 0..31 |-> t[i + 1]]

q7incr16 == <<
    -21, -19, -17, -15, -12, -10, -8, -6, -4, -1, 1, 3, 6, 8, 10, 13, 15,
    18, 20, 23, 26, 29, 31, 34, 37, 40, 43, 47, 50, 53, 57, 60, 64, 68, 72,
    76, 80, 85, 89, 94, 99, 105, 110, 116, 123, 129, 136, 144, 152, 161,
    171, 182, 194, 207, 223, 241, 263, 291, 328, 382, 467, 522, 522, 522>>

q4incr16 == <<
    -14, 6, 29, 58, 96, 154, 270, 521>>

q2incr16 == <<
    -33, 136>>

q3incr16 == <<
    -8, 33, 95, 262>>

(* Quantiser thresholds, entry 0 included: a cell begins at its entry. *)
dq7bit16_sl1 == <<
    -9948, 9948, 29860, 49808, 69822, 89926, 110144, 130502, 151026,
    171738, 192666, 213832, 235264, 256982, 279014, 301384, 324118,
    347244, 370790, 394782, 419250, 444226, 469742, 495832, 522536,
    549890, 577936, 606720, 636290, 666700, 698006, 730270, 763562,
    797958, 833538, 870398, 908640, 948376, 989740, 1032874, 1077948,
    1125150, 1174700, 1226850, 1281900, 1340196, 1402156, 1468282,
    1539182, 1615610, 1698514, 1789098, 1888944, 2000168, 2125700,
    2269750, 2438670, 2642660, 2899462, 3243240, 3746078, 4535138,
    5664098, 7102424, 8897462>>

dq4bit16_sl1 == <<
    -89806, 89806, 278502, 494338, 759442, 1113112, 1652322, 2720256,
    5190186>>

dq2bit16_sl1 == <<
    -194080, 194080, 890562>>

dq3bit16_sl1 == <<
    -163006, 163006, 542708, 1120554, 2669238>>

ThresholdTable ==
    [sb \in 0..3 |-> <<dq7bit16_sl1, dq4bit16_sl1,
                      dq2bit16_sl1, dq3bit16_sl1>>[sb + 1]]

(* How much of the dither goes into a reconstructed value, per entry. *)
dq7dith16_sf1 == <<
    9948, 9948, 9962, 9988, 10026, 10078, 10142, 10218, 10306, 10408,
    10520, 10646, 10784, 10934, 11098, 11274, 11462, 11664, 11880, 12112,
    12358, 12618, 12898, 13194, 13510, 13844, 14202, 14582, 14988, 15422,
    15884, 16380, 16912, 17484, 18098, 18762, 19480, 20258, 21106, 22030,
    23044, 24158, 25390, 26760, 28290, 30008, 31954, 34172, 36728, 39700,
    43202, 47382, 52462, 58762, 66770, 77280, 91642, 112348, 144452,
    199326, 303512, 485546, 643414, 794914, 1000124>>

dq4dith16_sf1 == <<
    89806, 89806, 98890, 116946, 148158, 205512, 333698, 734236, 1735696>>

dq2dith16_sf1 == <<
    194080, 194080, 502402>>

dq3dith16_sf1 == <<
    163006, 163006, 216698, 361148, 1187538>>

DitherTable ==
    [sb \in 0..3 |-> <<dq7dith16_sf1, dq4dith16_sf1,
                      dq2dith16_sf1, dq3dith16_sf1>>[sb + 1]]

IncrTable == [sb \in 0..3 |-> <<q7incr16, q4incr16, q2incr16, q3incr16>>[sb + 1]]

CeilingTable == [sb \in 0..3 |-> <<4607, 5375, 5887, 5631>>[sb + 1]]

BaseTable == [sb \in 0..3 |-> <<-20, -23, -25, -24>>[sb + 1]]

FilterWidthTable == [sb \in 0..3 |-> <<24, 12, 6, 12>>[sb + 1]]

QMF_outer_coeffs ==
    LET t == <<
        730, -413, -9611, 43626, -121026, 269973, -585547, 2801966,
        697128, -160481, 27611, 8478, -10043, 3511, 688, -897>>
    IN  [k \in 0..15 |-> t[k + 1]]

QMF_inner_coeffs ==
    LET t == <<
        1033, -584, -13592, 61697, -171156, 381799, -828088, 3962579,
        985888, -226954, 39048, 11990, -14203, 4966, 973, -1268>>
    IN  [k \in 0..15 |-> t[k + 1]]
=============================================================================
