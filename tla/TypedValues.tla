------------------------------ MODULE TypedValues ------------------------------
(***************************************************************************)
(* The typed fields and arguments of the physical contracts                *)
(* (contracts/physical.py), which commands and skills share.  A map from    *)
(* names stands for a list that is sorted and has no name twice.  Units,    *)
(* the length of a text and the magnitude of a number are left out.         *)
(***************************************************************************)
EXTENDS Integers

CONSTANT Nothing   \* no value

Numeric == {"integer", "number"}
Scalars == Numeric \cup {"boolean", "string", "identifier", "digest"}

(* _scalar_value *)
ScalarAccepted(value, type) ==
  CASE type = "boolean"  -> value \in BOOLEAN
    [] type \in Numeric  -> value \in Int
    [] OTHER             -> type \in Scalars /\ value \in STRING

(* TypedArgument.from_dict *)
ArgumentAccepted(a) == a.type \in Scalars /\ ScalarAccepted(a.value, a.type)

(* TypedField.from_dict: numbers are bounded, and nothing else is. *)
FieldAccepted(f) ==
  /\ f.type \in Scalars
  /\ f.required \in BOOLEAN
  /\ IF f.type \in Numeric THEN f.min <= f.max ELSE f.min = Nothing /\ f.max = Nothing

(* _typed_fields *)
FieldsAccepted(fields) == \A n \in DOMAIN fields : FieldAccepted(fields[n])

\* The type of an argument is that of its field, and a number lies within its bounds.
Fits(a, f) == /\ a.type = f.type
              /\ a.type \in Numeric => f.min <= a.value /\ a.value <= f.max
=============================================================================
