------------------------------- MODULE Kzg -------------------------------
(***************************************************************************)
(* da/kzg_rs: polynomials over a prime field, Reed-Solomon extension of    *)
(* rows, KZG commitments and proofs, the fast Fourier transform and the    *)
(* FK20 batch of proofs.  A polynomial is the sequence of its coefficients *)
(* from the constant one on.  A point of G1 or G2 is named by its discrete *)
(* logarithm: the group has as many elements as the field, addition and    *)
(* multiplication are the field's, and a pairing multiplies.               *)
(***************************************************************************)
EXTENDS Integers, Sequences, FiniteSets, Functions, FiniteSetsExt, SequencesExt

CONSTANTS
  BLS_MODULUS, PRIMITIVE_ROOT,
  RootsOrder,           \* the order of ROOTS_OF_UNITY, and the length of the setup
  Secret,               \* of the trusted setup
  derive_challenge(_)   \* the hash of the row commitments

Field == 0 .. BLS_MODULUS - 1

ASSUME FieldAssumption ==
  /\ BLS_MODULUS \in Nat \ {0, 1}
  /\ \A x \in Field \ {0} : \E y \in Field : (x * y) % BLS_MODULUS = 1
  /\ PRIMITIVE_ROOT \in Field /\ Secret \in Field
  /\ RootsOrder \in Nat \ {0} /\ (BLS_MODULUS - 1) % RootsOrder = 0

mod(n) == n % BLS_MODULUS
sum_of(f) == FoldFunction(LAMBDA a, b : mod(a + b), 0, f)
pow(x, e) == LET to[i \in 0 .. e] == IF i = 0 THEN 1 ELSE mod(to[i - 1] * x) IN to[e]
inverse == [x \in Field \ {0} |-> CHOOSE y \in Field : mod(x * y) = 1]

---------------------------------------------------------------------------
\* Polynomials.

coefficient(f, i) == IF i \in DOMAIN f THEN f[i] ELSE 0
longest(f, g) == 1 .. IF Len(f) > Len(g) THEN Len(f) ELSE Len(g)

plus(f, g) == [i \in longest(f, g) |-> mod(coefficient(f, i) + coefficient(g, i))]
minus(f, g) == [i \in longest(f, g) |-> mod(coefficient(f, i) - coefficient(g, i))]
scaled(f, x) == [i \in DOMAIN f |-> mod(x * f[i])]

times(f, g) ==
  [k \in 1 .. Len(f) + Len(g) - 1 |->
     sum_of([i \in DOMAIN f |-> f[i] * coefficient(g, k + 1 - i)])]

eval(f, x) == sum_of([i \in DOMAIN f |-> f[i] * pow(x, i - 1)])

without_leading_zeros(f) == SubSeq(f, 1, Max({0} \cup { i \in DOMAIN f : f[i] # 0 }))

\* One digit of the quotient a turn, after which all leading zeros of the remainder are popped.
divide(dividend, divisor) ==
  LET after[turn \in 0 .. Len(dividend)] ==
        IF turn = 0 THEN [quotient |-> << >>, remainder |-> dividend]
        ELSE LET so_far == after[turn - 1]
                 rest == so_far.remainder
                 shift == Len(rest) - Len(divisor)
                 factor == mod(Last(rest) * inverse[mod(Last(divisor))])
             IN  IF shift < 0 THEN so_far
                 ELSE [quotient |-> << factor >> \o so_far.quotient,
                       remainder |-> without_leading_zeros([i \in DOMAIN rest |->
                         mod(rest[i] - factor * coefficient(divisor, i - shift))])]
  IN  after[Len(dividend)].quotient

\* eth2spec's interpolate_polynomialcoeff: the polynomial with these values at these points.
interpolate(evaluations, points) ==
  LET term(k, j) ==
        LET w == inverse[mod(points[j] - points[k])] IN << mod(- points[k] * w), w >>
      base(j) == FoldLeft(times, << evaluations[j] >>,
                          [k \in 1 .. Len(points) - 1 |-> term(IF k < j THEN k ELSE k + 1, j)])
  IN  FoldLeft(plus, << >>, [j \in DOMAIN points |-> base(j)])

---------------------------------------------------------------------------
\* Roots of unity, Fourier transform and Reed-Solomon code.

compute_roots_of_unity(order) ==
  LET root == pow(PRIMITIVE_ROOT, (BLS_MODULUS - 1) \div order)
  IN  [i \in 1 .. order |-> pow(root, i - 1)]

ROOTS_OF_UNITY == compute_roots_of_unity(RootsOrder)

\* PRIMITIVE_ROOT generates the field.
ASSUME RootsAssumption == IsInjective(ROOTS_OF_UNITY)

\* Faulty variant: the roots of the second half are those of the first, not their negatives.
fft_unsigned(vals, roots) ==
  LET of[stride \in 1 .. Len(vals), first \in 1 .. Len(vals)] ==
        IF stride = Len(vals) THEN << vals[first] >>
        ELSE LET L == of[2 * stride, first]
                 R == of[2 * stride, first + stride]
                 term(k) == R[k] * roots[(k - 1) * stride + 1]
             IN  [i \in 1 .. 2 * Len(L) |-> LET k == IF i > Len(L) THEN i - Len(L) ELSE i
                                            IN  mod(L[k] + term(k))]
  IN  of[1, 1]

\* _fft, and fft_g1, which does the same to points: the transform of every stride-th value
\* from the first on, and of the roots likewise.  The number of values is a power of two.
fft(vals, roots) ==
  LET of[stride \in 1 .. Len(vals), first \in 1 .. Len(vals)] ==
        IF stride = Len(vals) THEN << vals[first] >>
        ELSE LET L == of[2 * stride, first]
                 R == of[2 * stride, first + stride]
                 term(k) == R[k] * roots[(k - 1) * stride + 1]
             IN  [i \in 1 .. 2 * Len(L) |-> IF i > Len(L) THEN mod(L[i - Len(L)] - term(i - Len(L)))
                                            ELSE mod(L[i] + term(i))]
  IN  of[1, 1]

ifft(vals, roots) ==
  scaled(fft(vals, << Head(roots) >> \o Reverse(Tail(roots))), inverse[Len(vals)])

encode_row(f, factor) == [i \in 1 .. Len(f) * factor |-> eval(f, ROOTS_OF_UNITY[i])]

\* A finite set of numbers, sorted.
ascending(S) ==
  CHOOSE s \in [1 .. Cardinality(S) -> S] : \A i, j \in 1 .. Cardinality(S) : i < j => s[i] < s[j]

\* rs.decode: `encoded' is defined where a point is not None.
decode(encoded, original_len) ==
  LET known == ascending(DOMAIN encoded)
      coefs == interpolate([i \in DOMAIN known |-> encoded[known[i]]],
                           [i \in DOMAIN known |-> ROOTS_OF_UNITY[known[i]]])
  IN  SubSeq(coefs, 1, IF original_len < Len(coefs) THEN original_len ELSE Len(coefs))

---------------------------------------------------------------------------
\* Commitments and proofs.

GLOBAL_PARAMETERS == [i \in 1 .. RootsOrder |-> pow(Secret, i - 1)]

g1_linear_combination(f) == sum_of([i \in DOMAIN f |-> f[i] * GLOBAL_PARAMETERS[i]])

bytes_to_polynomial(row) == interpolate(row, SubSeq(ROOTS_OF_UNITY, 1, Len(row)))

generate_element_proof(u, f) ==
  g1_linear_combination(divide(minus(f, << eval(f, u) >>), << - u, 1 >>))

verify_element_proof(v, commitment, proof, u) == mod(commitment - v) = mod(proof * (Secret - u))

fk20_generate_proofs(f) ==
  LET n == Len(f)
      roots == compute_roots_of_unity(2 * n)
      zeros == [i \in 1 .. n |-> 0]
      extended_vector == fft(Reverse(SubSeq(GLOBAL_PARAMETERS, 1, n)) \o zeros, roots)
      coefficients_fft == fft(zeros \o f, roots)
      h == ifft([i \in DOMAIN roots |-> mod(extended_vector[i] * coefficients_fft[i])], roots)
  IN  fft(SubSeq(h, 1, n), compute_roots_of_unity(n))

combine_commitments(commitments, h) ==
  sum_of([i \in DOMAIN commitments |-> commitments[i] * pow(h, i - 1)])

compute_combined_polynomial(polys, h) ==
  FoldLeft(plus, << >>, [i \in DOMAIN polys |-> scaled(polys[i], pow(h, i - 1))])

compute_combined_evaluation(chunks, h) ==
  sum_of([i \in DOMAIN chunks |-> chunks[i] * pow(h, i - 1)])
==========================================================================
