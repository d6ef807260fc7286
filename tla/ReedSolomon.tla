----------------------------- MODULE ReedSolomon -----------------------------
(***************************************************************************)
(* The Reed-Solomon library the two VLC drivers are linked with            *)
(* (reed_solomon.c, encode_rs.c, decode_rs.c, rslib.h; the copies in the   *)
(* two driver directories are the same).                                   *)
(*                                                                         *)
(* Both drivers call init_rs(8, 0x11d, 0, 1, ECC_LEN): fcr = 0 and         *)
(* prim = 1, hence iprim = 1.  The size of a symbol, the field polynomial  *)
(* and the number of roots are parameters.  They call encode_rs8 and       *)
(* decode_rs8 with no inversion mask, no syndrome, no erasures and no      *)
(* correction buffer, and those branches of the library are left out.      *)
(*                                                                         *)
(* A symbol is in polynomial form (0 .. NN, addition is exclusive or) or   *)
(* in index form (the exponent of alpha; NN stands for the logarithm of    *)
(* zero), as in the code.                                                  *)
(***************************************************************************)
EXTENDS Integers, Sequences, FiniteSets, SequencesExt

CONSTANTS
  MM,       \* symsize: bits in a symbol
  GFPOLY,   \* gfpoly: the field generator polynomial
  NROOTS,   \* nroots: parity symbols (ECC_LEN)
  EBADMSG   \* the error number

NN == 2^MM - 1
Symbol == 0 .. NN

-----------------------------------------------------------------------------
(* rs_init: the tables.                                                    *)

\* a ^ b, over the bits of a symbol and the one that gfpoly has more.
BitXor(a, b) ==
  LET sum[n \in 0 .. MM + 1] ==
        IF n = 0 THEN 0
        ELSE LET bit == 2^(n - 1)
             IN  sum[n - 1] + bit * (((a \div bit) + (b \div bit)) % 2)
  IN  sum[MM + 1]

XorTable == [a \in Symbol, b \in Symbol |-> BitXor(a, b)]
Xor(a, b) == XorTable[a, b]

\* The exclusive or of f[i] for i in 0 .. n - 1.
XorSum(f, n) ==
  LET sum[i \in 0 .. n] == IF i = 0 THEN 0 ELSE Xor(sum[i - 1], f[i - 1])
  IN  sum[n]

\* The shift register sr after i rounds.
sr[i \in 0 .. NN] ==
  IF i = 0 THEN 1
  ELSE LET shifted == 2 * sr[i - 1]
       IN  (IF shifted > NN THEN BitXor(shifted, GFPOLY) ELSE shifted) % (NN + 1)

alpha_to == [i \in Symbol |-> IF i = NN THEN 0 ELSE sr[i]]
index_of == [s \in Symbol |->
              IF s = 0 THEN NN ELSE CHOOSE i \in 0 .. NN - 1 : sr[i] = s]

\* rs_init gives up unless the register is back at its first value.
ASSUME RsAssumption ==
  /\ MM \in Nat /\ MM >= 2
  /\ NROOTS \in 1 .. NN - 1
  /\ EBADMSG \in Nat \ {0}
  /\ sr[NN] = alpha_to[0]
  /\ \A s \in 1 .. NN : \E i \in 0 .. NN - 1 : sr[i] = s

\* rs_modnn reduces an exponent modulo NN.
LargestExponent == (NROOTS + 3) * NN
rs_modnn[x \in 0 .. LargestExponent] ==
  IF x < NN THEN x
  ELSE LET y == x - NN IN rs_modnn[(y \div (NN + 1)) + (y % (NN + 1))]

\* alpha to the power x.
Alpha(x) == alpha_to[rs_modnn[x]]

\* The generator polynomial after its first i roots, in polynomial form.
GenPoly[i \in 0 .. NROOTS] ==
  IF i = 0 THEN [j \in 0 .. NROOTS |-> IF j = 0 THEN 1 ELSE 0]
  ELSE LET g == GenPoly[i - 1]
           root == i - 1
           Times(c) == IF c # 0 THEN Alpha(index_of[c] + root) ELSE 0
       IN  [j \in 0 .. NROOTS |->
             IF j = i THEN 1
             ELSE IF j = 0 THEN Times(g[0])
             ELSE Xor(g[j - 1], Times(g[j]))]

genpoly == [j \in 0 .. NROOTS |-> index_of[GenPoly[NROOTS][j]]]

-----------------------------------------------------------------------------
(* encode_rs8.                                                             *)

\* One data symbol goes into the shift register of parity symbols.
EncodeStep(par, d) ==
  LET fb == index_of[Xor(d, par[1])]
      Feed(p, g) == IF fb # NN THEN Xor(p, Alpha(fb + g)) ELSE p
  IN  [j \in 1 .. NROOTS |->
        IF j < NROOTS THEN Feed(par[j + 1], genpoly[NROOTS - j])
                      ELSE Feed(0, genpoly[0])]

\* The parity symbols of a block.
encode_rs8(data) == FoldLeft(EncodeStep, [j \in 1 .. NROOTS |-> 0], data)

-----------------------------------------------------------------------------
(* decode_rs8.                                                             *)

\* Symbols a shortened code leaves out in front of the block.
Pad(data) == NN - NROOTS - Len(data)

\* The received word evaluated at root i, in polynomial form.
Syndrome(word, i) ==
  LET Horner(s, d) == IF s = 0 THEN d ELSE Xor(d, Alpha(index_of[s] + i))
  IN  FoldLeft(Horner, Head(word), Tail(word))

\* All of them, in index form.
Syndromes(word) == [i \in 0 .. NROOTS - 1 |-> index_of[Syndrome(word, i)]]

\* The discrepancy of step r of Berlekamp-Massey, in index form.
Discrepancy(s, lambda, r) ==
  index_of[XorSum([i \in 0 .. r - 1 |->
                    IF lambda[i] # 0 /\ s[r - i - 1] # NN
                    THEN Alpha(index_of[lambda[i]] + s[r - i - 1]) ELSE 0], r)]

\* Step r: st.lambda is in polynomial form, st.b in index form, st.el is the
\* number of errors assumed so far.
BerlekampStep(s, st, r) ==
  LET discr_r == Discrepancy(s, st.lambda, r)
      shifted_b == [i \in 0 .. NROOTS |-> IF i = 0 THEN NN ELSE st.b[i - 1]]
      t == [i \in 0 .. NROOTS |->
             IF i = 0 \/ st.b[i - 1] = NN THEN st.lambda[i]
             ELSE Xor(st.lambda[i], Alpha(discr_r + st.b[i - 1]))]
      lengthens == 2 * st.el <= r - 1
  IN  IF discr_r = NN THEN [st EXCEPT !.b = shifted_b]
      ELSE [lambda |-> t,
            el |-> IF lengthens THEN r - st.el ELSE st.el,
            b |-> IF lengthens
                  THEN [i \in 0 .. NROOTS |->
                         IF st.lambda[i] = 0 THEN NN
                         ELSE rs_modnn[index_of[st.lambda[i]] - discr_r + NN]]
                  ELSE shifted_b]

\* The error locator polynomial, in index form.
BerlekampMassey(s) ==
  LET st[r \in 0 .. NROOTS] ==
        IF r = 0
        THEN [lambda |-> [i \in 0 .. NROOTS |-> IF i = 0 THEN 1 ELSE 0],
              b |-> [i \in 0 .. NROOTS |-> IF i = 0 THEN 0 ELSE NN],
              el |-> 0]
        ELSE LET before == st[r - 1] IN BerlekampStep(s, before, r)
      final == st[NROOTS]
  IN  [i \in 0 .. NROOTS |-> index_of[final.lambda[i]]]

\* deg_lambda.
Degree(lambda) ==
  CHOOSE i \in 0 .. NROOTS : /\ i = 0 \/ lambda[i] # NN
                             /\ \A j \in i + 1 .. NROOTS : lambda[j] = NN

\* Mutant of Roots: the sum starts without lambda[0].
RootsFromZero(lambda, deg) ==
  {i \in 1 .. NN :
     XorSum([j \in 0 .. deg - 1 |->
              IF lambda[j + 1] # NN
              THEN Alpha(lambda[j + 1] + (j + 1) * i) ELSE 0], deg) = 0}

\* Chien search.  Root i belongs to location i - 1.  The code ends the
\* search at the deg_lambda-th root; there are never more.
Roots(lambda, deg) ==
  {i \in 1 .. NN :
     Xor(1, XorSum([j \in 0 .. deg - 1 |->
                     IF lambda[j + 1] # NN
                     THEN Alpha(lambda[j + 1] + (j + 1) * i) ELSE 0],
                   deg)) = 0}

\* The error evaluator polynomial, in index form.
Omega(s, lambda, deg) ==
  [i \in 0 .. deg - 1 |->
    index_of[XorSum([j \in 0 .. i |->
                      IF s[i - j] # NN /\ lambda[j] # NN
                      THEN Alpha(s[i - j] + lambda[j]) ELSE 0], i + 1)]]

\* The error value at a root (Forney), in polynomial form.
ErrorValue(s, lambda, deg, root) ==
  LET omega == Omega(s, lambda, deg)
      num1 == XorSum([i \in 0 .. deg - 1 |->
                       IF omega[i] # NN THEN Alpha(omega[i] + i * root)
                                        ELSE 0], deg)
      num2 == Alpha(NN - root)
      last == IF deg < NROOTS - 1 THEN deg ELSE NROOTS - 1
      den == XorSum([i \in 0 .. last |->
                      IF i % 2 = 0 /\ lambda[i + 1] # NN
                      THEN Alpha(lambda[i + 1] + i * root) ELSE 0], last + 1)
  IN  IF num1 = 0 THEN 0
      ELSE Alpha(index_of[num1] + index_of[num2] + NN - index_of[den])

\* Mutant of Corrected: locations are taken from the start of the full code.
CorrectedUnpadded(data, s, lambda, roots) ==
  [k \in DOMAIN data |->
    IF k \in roots
    THEN Xor(data[k], ErrorValue(s, lambda, Degree(lambda), k)) ELSE data[k]]

\* The data with the errors inside it corrected: root i is the symbol at
\* index i - 1 - pad.  Errors in the parity are found and left there.
Corrected(data, s, lambda, roots) ==
  [k \in DOMAIN data |->
    IF k + Pad(data) \in roots
    THEN Xor(data[k], ErrorValue(s, lambda, Degree(lambda), k + Pad(data)))
    ELSE data[k]]

\* decode_rs8: the value it returns and what it makes of the data.
decode_rs8(data, par) ==
  LET s      == Syndromes(data \o par)
      lambda == BerlekampMassey(s)
      roots  == Roots(lambda, Degree(lambda))
  IN  IF \A i \in DOMAIN s : s[i] = NN
      THEN [count |-> 0, data |-> data]
      ELSE IF Cardinality(roots) # Degree(lambda)
      THEN [count |-> 0 - EBADMSG, data |-> data]
      ELSE [count |-> Cardinality(roots),
            data |-> Corrected(data, s, lambda, roots)]
=============================================================================
