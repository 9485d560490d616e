SPECIFICATION Spec
CONSTANTS
  Clq <- MCClq
  Link <- MCLink
  Factor <- MCFactor
  Home <- MCHome
  Behind <- MCBehind
INVARIANTS IInv AccountedOnce Calibrated
