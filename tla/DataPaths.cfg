SPECIFICATION Spec
CONSTANTS
  None = None
  Hats <- MCHats
  Tokens <- MCTokens
  Frames <- MCFrames
  Views <- MCViews
INVARIANT HatArrivesWhole
INVARIANT ReportedHatIsVendors
INVARIANT AdmittedIsRendered
INVARIANT PreviewCoversView
