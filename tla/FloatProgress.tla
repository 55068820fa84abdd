---------------------------- MODULE FloatProgress ----------------------------
(***************************************************************************)
(* The arithmetic of the progress of a download,                           *)
(*     (int) (((float) finished / (float) length) * 100),                  *)
(* for floats of so many significant bits that every int up to `exact`, a  *)
(* power of two, is one.  In Java exact is 2^24.                           *)
(***************************************************************************)
EXTENDS Integers

(* The integer nearest to num / den, of two the even one. *)
Nearest(num, den) ==
    LET q == num \div den
        r == num % den
    IN  IF 2 * r > den \/ (2 * r = den /\ q % 2 = 1) THEN q + 1 ELSE q

(* (float) x of an int x below 128 * exact: up to exact it is x itself,      *)
(* beyond it the nearest multiple of the power of two that leaves a          *)
(* significand below exact.                                                  *)
Float(x, exact) ==
    IF x <= exact THEN x
    ELSE LET gap == CHOOSE g \in {2, 4, 8, 16, 32, 64, 128} :
                        (x \div g) \in (exact \div 2)..(exact - 1)
         IN  Nearest(x, gap) * gap

(* The whole expression, for 0 < a <= b: quotient and product are rounded to  *)
(* a significand below exact over a power of two, and the product is cut off. *)
Powers == {1, 2, 4, 8, 16, 32, 64, 128, 256, 512, 1024, 2048, 4096, 8192, 16384, 32768,
           65536, 131072}

Scale(num, den, exact) ==
    CHOOSE s \in Powers : ((num * s) \div den) \in (exact \div 2)..(exact - 1)

Progress(a, b, exact) ==
    LET fa == Float(a, exact)
        fb == Float(b, exact)
        s  == Scale(fa, fb, exact)
        c  == Nearest(fa * s, fb)
        t  == Scale(100 * c, s, exact)
    IN  Nearest(100 * c * t, s) \div t

=============================================================================
