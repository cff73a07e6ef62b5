--------------------------- MODULE MCMultiButton ----------------------------
EXTENDS MultiButton

\* One button as button_init and one as button_init_ext leaves it, with a long press
\* reported once, or again and again and, as period is 0, at once.
MCConfigs == {[ext |-> FALSE, active |-> 0, again |-> FALSE, long |-> 3],
              [ext |-> TRUE, active |-> 1, again |-> TRUE, long |-> 0]}
=============================================================================
