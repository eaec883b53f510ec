SPECIFICATION Spec
CONSTANTS
  Ascii = {" ", "a"}
  NonAscii = {"e", "wide", "mark"}
  Unprintable = {"bell"}
  Space = " "
  Styles = {"plain", "bold"}
  Plain = "plain"
  StyleSize <- TwoStyles
  Width <- Columns
  MaxCells = 4
  Applications <- MCApplications
INVARIANTS
  ScreenShowsFront
  BridgesPay
PROPERTIES
  SurfaceIsExact
