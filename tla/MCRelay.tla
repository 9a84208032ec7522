------------------------------ MODULE MCRelay ------------------------------
EXTENDS Relay

NoForeign == {}
ForeignOn == [val : {"HIGH"}, retain : {FALSE}]
RetainedOn == {[val |-> "HIGH", retain |-> TRUE]}
ForeignOnOff == [val : {"LOW", "HIGH"}, retain : {FALSE}]
ForeignToggle == ForeignOnOff \cup {[val |-> "TOG", retain |-> FALSE]}
=============================================================================
