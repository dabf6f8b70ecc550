SPECIFICATION Spec
CONSTANTS
  ok = ok
  cancel = cancel
  Nobody = Nobody
  Bare = Bare
  Off = Off
  NTags = 2
  Contexts <- MCContexts
SYMMETRY Symmetry
INVARIANTS TypeOK HeldIsTouched EventsAreOwn
