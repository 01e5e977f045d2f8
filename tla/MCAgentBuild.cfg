SPECIFICATION Spec
CONSTANTS
  Width = 4
  Disks <- MCDisks
  Top <- MCTop
  Yaml <- MCYaml
  Missing <- MCMissing
  Source = {"k1", "k2"}
  TemplateRegistries = {1, 2}
  MaxRegister = 2
  MaxDepth = 4
 
PROPERTY BuildEnds
CHECK_DEADLOCK FALSE
