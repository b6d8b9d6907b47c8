----------------------------- MODULE FloatTerms -----------------------------
(***************************************************************************)
(* Float values, represented by the term that computed them.  A term is    *)
(* written in prefix form as a sequence of integers whose first element    *)
(* tells what it is, so two values are equal only if the same operations   *)
(* were applied to the same inputs in the same order: nothing is assumed   *)
(* of float arithmetic, not even commutativity.                            *)
(***************************************************************************)
EXTENDS Integers, Sequences

Float == Seq(Int)

PosInf == <<-1>>
NegInf == <<-2>>
Uninit == <<-3>>                      \* a word of memory nobody wrote

Number == Float \ {PosInf, NegInf}

(***************************************************************************)
(* An int sent over the float bus.  The conversion is exact up to 2^24,    *)
(* far above the sizes of the networks considered.  Converting back a      *)
(* value that no int gave (an infinity) is undefined in C++; x86 yields    *)
(* the smallest int.                                                       *)
(***************************************************************************)
OfInt(n) == <<0, n>>
ToInt(v) == IF Len(v) = 2 /\ v[1] = 0 THEN v[2] ELSE -2147483647 - 1

Pixel(k)  == <<1, k>>                 \* the k-th number of the picture file
Weight(k) == <<2, k>>                 \* the k-th weight of the config file

Mac(sum, x, w)    == sum \o <<-4>> \o x \o w        \* sum + x * w
AddBias(sum, w)   == sum \o <<-5>> \o w             \* sum + w
sigmoid(sum)      == <<-6>> \o sum \o <<-7>>
=============================================================================
