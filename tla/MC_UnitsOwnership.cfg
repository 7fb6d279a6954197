CONSTANTS
    o1 = o1
    o2 = o2
    o3 = o3
    None = None
    Objs <- MC_Objs
SYMMETRY Symm
SPECIFICATION Spec
INVARIANT RegistryCurrent
PROPERTY PinOwnershipSpec
\* Once every object of Objs is built and the RGB_Multi objects are
\* deinitialised, the application builds no more: that end is the bound.
CHECK_DEADLOCK FALSE
