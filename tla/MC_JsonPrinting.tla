--------------------------- MODULE MC_JsonPrinting ---------------------------
(* Instances of JsonPrinting for TLC.                                      *)
EXTENDS JsonPrinting

\* a call of each kind of value, with arguments the three contexts print
\* alike
MCScalars ==
    {[m |-> "skip", v |-> <<"null">>],
     [m |-> "writeInt", v |-> <<"-1">>],
     [m |-> "writeBool", v |-> <<"true">>],
     [m |-> "writeDouble", v |-> <<"finite">>],
     [m |-> "writeStringUtf8", v |-> <<"QUOTE", "NL">>],
     [m |-> "writeJson", v |-> <<"1">>]}

\* the calls of the unsigned integer writers
MCScalarsUnsigned == {[m |-> "writeNull", v |-> <<"null">>],
                      [m |-> "writeUnsignedInt", v |-> <<"7">>]}

\* a string holding a control character other than tab and newline
MCScalarsControl == {[m |-> "writeNull", v |-> <<"null">>],
                     [m |-> "writeStringUtf8", v |-> <<"A", "CTL">>]}

\* a double that is not finite
MCScalarsNonFinite == {[m |-> "writeNull", v |-> <<"null">>],
                       [m |-> "writeDouble", v |-> <<"inf">>]}
====
