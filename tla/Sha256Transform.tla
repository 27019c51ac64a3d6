-------------------------- MODULE Sha256Transform --------------------------
(***************************************************************************)
(* The compression functions of SHA-256 in this repository: with NEON      *)
(* instructions, four rounds at a time (sha256_transform, and its other    *)
(* form under ROLLED_UP_METHOD), and with plain arithmetic, one round at a *)
(* time (sha256_transform_hw).  sha256_testbench.cpp hashes the same data  *)
(* with both files and compares; so does this module, with all three.      *)
(* One step is one iteration of a loop.                                    *)
(***************************************************************************)
EXTENDS Sha256

CONSTANT KnownDigests   \* published digests: a function from some messages

VARIABLES
    method,   \* "neon", "rolled" or "scalar"
    n,        \* the loop counter of the transform
    sched,    \* the message schedule: vectors of four words, or words
    cur,      \* cur_state: <<abcd, efgh>>; or a..h
    hashes    \* the digests of the methods that are done

runVars == <<n, sched, cur>>
vars == <<message, ctxVars, runVars, method, hashes>>

AddEach(x, y) == [j \in 1..Len(x) |-> Add(x[j], y[j])]
Quad(words, q) == SubSeq(words, 4 * q + 1, 4 * q + 4)
-----------------------------------------------------------------------------
(* The NEON instructions, on vectors of four words.  vsha256hq and          *)
(* vsha256h2q both do four rounds; one returns abcd, the other efgh.        *)
NeonRound(x, y, w) ==
    LET t == Add4(y[4], EP1(y[1]), CH(y[1], y[2], y[3]), w)
    IN  << <<Add3(t, EP0(x[1]), MAJ(x[1], x[2], x[3])), x[1], x[2], x[3]>>,
           <<Add(t, x[4]), y[1], y[2], y[3]>> >>

NeonRounds(x, y, w) ==
    LET r1 == NeonRound(x, y, w[1])
        r2 == NeonRound(r1[1], r1[2], w[2])
        r3 == NeonRound(r2[1], r2[2], w[3])
    IN  NeonRound(r3[1], r3[2], w[4])

vsha256hq(abcd, efgh, w)  == NeonRounds(abcd, efgh, w)[1]
vsha256h2q(efgh, abcd, w) == NeonRounds(abcd, efgh, w)[2]

vsha256su0q(w0, w4) ==
    <<Add(SIG0(w0[2]), w0[1]), Add(SIG0(w0[3]), w0[2]),
      Add(SIG0(w0[4]), w0[3]), Add(SIG0(w4[1]), w0[4])>>

vsha256su1q(t0, w8, w12) ==
    LET r1 == Add3(SIG1(w12[3]), t0[1], w8[2])
        r2 == Add3(SIG1(w12[4]), t0[2], w8[3])
    IN  <<r1, r2, Add3(SIG1(r1), t0[3], w8[4]), Add3(SIG1(r2), t0[4], w12[1])>>

(* vrev32q_u8 of a vld1q_u8: four words of the block.                       *)
LoadQuad(q) == [j \in 1..4 |-> BigEndian(data, 16 * q + 4 * j - 3)]
-----------------------------------------------------------------------------
Transforming(m) == stage = "transform" /\ method = m

(* The transform returns: the counter is ready for the next call.           *)
Return(result) ==
    /\ state' = AddEach(result, state)
    /\ stage' = after
    /\ n' = 0 /\ sched' = << >> /\ cur' = << >>
    /\ UNCHANGED <<message, i, data, datalen, bitlen, transformed, after, hash>>

(* Mutation of Hashed: efgh from the new abcd instead of the old one.       *)
HashedInPlace(old, round_input) ==
    LET abcd == vsha256hq(old[1], old[2], round_input)
    IN  <<abcd, vsha256h2q(old[2], abcd, round_input)>>

(* Four rounds; both halves of the new state come from the old one.         *)
Hashed(old, round_input) ==
    <<vsha256hq(old[1], old[2], round_input),
      vsha256h2q(old[2], old[1], round_input)>>

InContext == UNCHANGED <<message, ctxVars>>

(* The schedule is made first, sixteen vectors.                             *)
NeonSchedule ==
    /\ Transforming("neon") /\ Len(sched) < 16
    /\ sched' = IF Len(sched) < 4
                THEN Append(sched, LoadQuad(Len(sched)))
                ELSE LET s == sched  l == Len(sched)
                     IN  Append(s, vsha256su1q(vsha256su0q(s[l - 3], s[l - 2]),
                                               s[l - 1], s[l]))
    /\ UNCHANGED <<n, cur>> /\ InContext

NeonHash ==
    /\ Transforming("neon") /\ Len(sched) = 16 /\ n < 16
    /\ LET old == IF n = 0 THEN <<Quad(state, 0), Quad(state, 1)>> ELSE cur
       IN  cur' = Hashed(old, AddEach(sched[n + 1], Quad(K, n)))
    /\ n' = n + 1
    /\ UNCHANGED sched /\ InContext

(* The next vector, out of the ring of the last four.                       *)
Rolled(ring) ==
    LET at(k) == ring[((n + k) % 4) + 1]
    IN  vsha256su1q(vsha256su0q(at(0), at(1)), at(2), at(3))

(* ROLLED_UP_METHOD: schedule and rounds in one loop.                       *)
RolledHash ==
    /\ Transforming("rolled") /\ n < 16
    /\ sched' = IF n < 4 THEN Append(sched, LoadQuad(n))
                ELSE [sched EXCEPT ![(n % 4) + 1] = Rolled(sched)]
    /\ LET old == IF n = 0 THEN <<Quad(state, 0), Quad(state, 1)>> ELSE cur
       IN  cur' = Hashed(old, AddEach(sched'[(n % 4) + 1], Quad(K, n)))
    /\ n' = n + 1
    /\ InContext

NeonReturn ==
    /\ stage = "transform" /\ method \in {"neon", "rolled"}
    /\ n = 16
    /\ Return(cur[1] \o cur[2])
-----------------------------------------------------------------------------
(* The 64 words of the schedule of sha256_transform_hw.                     *)
ScalarSchedule ==
    /\ Transforming("scalar") /\ Len(sched) < 64
    /\ sched' = LET m == sched  l == Len(sched)
                IN  Append(m, IF l < 16 THEN BigEndian(data, 4 * l + 1)
                              ELSE Add4(SIG1(m[l - 1]), m[l - 6],
                                        SIG0(m[l - 14]), m[l - 15]))
    /\ UNCHANGED <<n, cur>> /\ InContext

(* One round of a..h with its constant and its word.                        *)
ScalarRound(s, k, m) ==
    LET t1 == Add(Add4(s[8], EP1(s[5]), CH(s[5], s[6], s[7]), k), m)
        t2 == Add(EP0(s[1]), MAJ(s[1], s[2], s[3]))
    IN  <<Add(t1, t2), s[1], s[2], s[3], Add(s[4], t1), s[5], s[6], s[7]>>

ScalarHash ==
    /\ Transforming("scalar") /\ Len(sched) = 64 /\ n < 64
    /\ cur' = ScalarRound(IF n = 0 THEN state ELSE cur, K[n + 1], sched[n + 1])
    /\ n' = n + 1
    /\ UNCHANGED sched /\ InContext

ScalarReturn == Transforming("scalar") /\ n = 64 /\ Return(cur)
-----------------------------------------------------------------------------
Init ==
    /\ ContextInit
    /\ method = "neon"
    /\ n = 0 /\ sched = << >> /\ cur = << >>
    /\ hashes = << >>

Compress == NeonSchedule \/ NeonHash \/ RolledHash \/ NeonReturn
              \/ ScalarSchedule \/ ScalarHash \/ ScalarReturn

Hash == Absorb /\ UNCHANGED runVars

(* The same data for the next implementation.                               *)
NextMethod ==
    /\ stage = "done" /\ method # "scalar"
    /\ method' = IF method = "neon" THEN "rolled" ELSE "scalar"
    /\ hashes' = Append(hashes, hash)
    /\ ContextReset
    /\ UNCHANGED runVars

Next == \/ (Hash \/ Compress) /\ UNCHANGED <<method, hashes>>
        \/ NextMethod

Spec == Init /\ [][Next]_vars
-----------------------------------------------------------------------------
(* The testbench's "TEST PASSED": the NEON code, in both its forms, and the *)
(* scalar code compute the same hash.                                       *)
HashesAgree ==
    stage = "done" => \A m \in 1..Len(hashes) : hashes[m] = hash

(* And it is SHA-256: the digests published for these messages come out.    *)
HashesKnown ==
    stage = "done" /\ message \in DOMAIN KnownDigests => hash = KnownDigests[message]
=============================================================================
