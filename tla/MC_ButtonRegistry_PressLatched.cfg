\* Violated: a press handled while register() is between lines 14 and 24
\* of M5_Button.__init__ is not latched.
CONSTANTS
    MaxLines <- MC_MaxLines
SPECIFICATION Spec
INVARIANT PressLatched
