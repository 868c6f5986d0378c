SPECIFICATION Spec
CONSTANTS
  a = a
  b = b
  x = x
  y = y
  v = v
  w = w
  Unset = Unset
  Env = Env
  Services = {a, b}
  Secrets = {x, y}
  Values = {v, w}
  Specs <- MCSpecs
  MaxEdits = 1
  MaxTroubles = 1
INVARIANTS TypeOK TemplatesBacked ImagesResolved
PROPERTIES ContextKept ObjectsConverge WritesSettle
